---- MODULE Spec2Model ----
(***************************************************************************)
(* Model of the IPC core of simulator_challenge: ipc/core.py (message and  *)
(* spec types), ipc/pubsub.py (Publisher, Subscriber) and ipc/rpc.py       *)
(* (RPCServerCall, RPCServer, RPCClient), running against one Redis        *)
(* broker (pub/sub channels with fan-out, one key/value store).            *)
(*                                                                         *)
(* Every process is an operating-system process of its own; the steps of   *)
(* the model are the broker operations (GET, SET, DEL, PUBLISH, SUBSCRIBE, *)
(* reading one delivery), each taken together with the process-local code  *)
(* that runs around it without touching the broker.  Inside one server the *)
(* request loop and the cancel loop are asyncio tasks of one event loop:   *)
(* the cancel loop runs only while the request loop is suspended in an     *)
(* await.                                                                  *)
(***************************************************************************)
EXTENDS Integers, Sequences, FiniteSets, TLC

VARIABLES
    now,           \* wall clock, in units of 10 ms (datetime.now / time.time)
    kv,            \* the broker's key/value store: key -> JSON value or NoneRaw
    log,           \* per channel, the messages the broker accepted, in order
    \* ---- RPCServer instances
    node_id,       \* BaseRPCAgent._node_id of each server (NodeID.name)
    srv_pc,        \* where the server's constructor / request loop stands
    raw_status,    \* the local raw_status of the running _update_status
    cur_rpc_call,  \* RPCServer._cur_rpc_call
    request_sub,   \* RPCServer._request_sub
    cancel_sub,    \* RPCServer._cancel_sub
    \* ---- RPCClient instances
    cli_pc,        \* "idle", or "waiting" inside call() at await get_msg()
    request_pub,   \* RPCClient._request_pub
    cancel_pub,    \* RPCClient._cancel_pub
    response_sub,  \* RPCClient._response_sub
    call_req,      \* the request_msg object of the client's latest call()
    call_ret,      \* what the client's latest call() returned
    \* ---- the nodes of a plain topic (BaseNode publishers, one subscriber)
    topic_pub,     \* BaseNode._publishers[topic_spec] of each publishing node
    publish_ret,   \* the latest publish(): its argument before and after, raised
    topic_sub,     \* the Subscriber of the subscribing node
    listen_pc,     \* where Subscriber.listen stands: "get_msg" or "callback"
    callback_msgs, \* the messages listen() has passed to the callback, in order
    callbacks_running, \* how many invocations of the callback have not completed
    \* ---- a BaseNode inside run()
    node,          \* where run() stands, the node's tasks, and its stop() calls
    \* ---- RPCSpec objects and the addresses read from them
    derived,
    \* ---- the environment
    budget         \* how many more calls, cancels, abandoned calls and closes
                   \* the users of the clients and servers make

vars == <<now, kv, log, node_id, srv_pc, raw_status, cur_rpc_call, request_sub,
          cancel_sub, cli_pc, request_pub, cancel_pub, response_sub, call_req,
          call_ret, topic_pub, publish_ret, topic_sub, listen_pc, callback_msgs,
          callbacks_running, node, derived, budget>>

srv_vars == <<node_id, srv_pc, raw_status, cur_rpc_call, request_sub, cancel_sub>>
cli_vars == <<cli_pc, request_pub, cancel_pub, response_sub, call_req, call_ret>>
topic_vars == <<topic_pub, publish_ret, topic_sub, listen_pc, callback_msgs,
                callbacks_running>>
node_vars == <<node, derived>>

----------------------------------------------------------------------------
(* Bounds of the model *)

\* one server and two clients (Spec)
MaxCalls == 2      \* call()s, of all clients together
MaxCancels == 1    \* cancel_running_procedure()s, of all clients together
MaxAbandons == 1   \* calls abandoned by their caller, in total
MaxCloses == 1     \* RPCServer.close()s, in total
\* two servers and one client (SpecDup)
DupMaxCalls == 1   \* call()s of the client
DupMaxCloses == 1  \* RPCServer.close()s, in total
\* one server that stays up and two clients (SpecServe)
ServeMaxCalls == 2    \* call()s, of all clients together
ServeMaxCancels == 1  \* cancel_running_procedure()s, of all clients together
\* two publishing nodes and one subscriber on a topic (SpecTopic)
TopicMaxPublishes == 3  \* publish()es, of all nodes together
\* the same with a broker that loses deliveries and a foreign writer (SpecLossy)
LossyMaxPublishes == 5  \* publish()es of the node
LossyMaxDrops == 1      \* deliveries the broker discards
RawMaxPublishes == 2    \* publish()es of the node
RawMaxRaws == 2         \* texts written to the channel without a Publisher
\* one publishing node and one subscriber while time passes (SpecClock)
ClockMaxPublishes == 3  \* publish()es of the node
TickStep == 50          \* what the clock advances by, in units of 10 ms
ClockEnd == 150         \* the time at which the clock stops
\* a node that constructs, uses and closes a subscriber and a server (SpecSub)
SubMaxPublishes == 3    \* publish()es, of all nodes together
\* a node inside run() with an RPC server and user tasks, and a client (SpecRun)
RunMaxCalls == 2        \* call()s of the client
RunMaxStops == 1        \* stop() calls made by the node's own code

MixMaxPublishes == 5    \* publish()es, of all nodes together
MixMaxDrops == 1        \* deliveries the broker discards

RaceMaxCalls == 2       \* call()s, of all clients together
RaceMaxCancels == 1     \* cancel_running_procedure()s, of all clients together

StopMaxCalls == 1       \* call()s of the client
StopMaxStops == 1       \* stop() calls made by the node's own code

LatMaxCancels == 4      \* cancel_running_procedure()s of the client
FineTickStep == 20      \* what the clock advances by, in units of 10 ms
FineClockEnd == 140     \* the time at which the clock stops

Clients == {"c1", "c2"}          \* NodeID names of the RPC clients
Servers == {"s1", "s2"}          \* RPCServer instances (one process each)
\* NodeID names a server may be given: the second server is a duplicate of
\* the first under its NodeID or under another one
ServerIds(s) == IF s = "s1" THEN {"srvA"} ELSE {"srvA", "srvB"}
Contents == {"go"}               \* DebugRequest.content
Nodes == {"debug0", "debug1"}    \* NodeID names of the nodes that publish on the topic
\* RPCSpec arguments: base channels and the names of requesters
BaseChannels == {"debug", "navigate", "nav", "nav-debug"}
RequesterNames == {"debug0", "keyboard", "debug-keyboard"}
\* what a node may pass as a callback or as a procedure function
Callables == {"coroutine function", "function", "None"}
ReturnVals == {"done"}           \* what a procedure may return

----------------------------------------------------------------------------
(* ipc/core.py: values *)

\* Python's None, for each type of optional field
NoneId == "<None>"              \* Optional[NodeID]
NoneInt == -1                   \* Optional[int], Optional[datetime], Optional[float]
NoneStr == "<None>"             \* Optional[str]
NoneMsg == [none |-> TRUE]      \* Optional[RPCRequest], Optional[RPCServerCall], ...
NoneRaw == [absent |-> TRUE]    \* redis GET of a key that is not set

\* class Message and its subclasses: the fields pydantic declares for each
BaseFields == {"sender_id", "pub_dt", "pub_counter"}

ResponseFields ==
    BaseFields \cup {"request_msg", "duration", "return_val", "cancelled", "traceback_str"}

IsSubclass(cls, of) ==
    \/ cls = of
    \/ of = "Message"
    \/ of = "RPCRequest" /\ cls = "DebugRequest"

\* Debug(content=...), before it is published
Debug(content) ==
    [cls |-> "Debug", sender_id |-> NoneId, pub_dt |-> NoneInt,
     pub_counter |-> NoneInt, content |-> content]

\* DebugRequest(content=...), before it is published
DebugRequest(content) ==
    [cls |-> "DebugRequest", sender_id |-> NoneId, pub_dt |-> NoneInt,
     pub_counter |-> NoneInt, content |-> content]

\* RPCCancel()
RPCCancel ==
    [cls |-> "RPCCancel", sender_id |-> NoneId, pub_dt |-> NoneInt,
     pub_counter |-> NoneInt]

\* RPCResponse(request_msg=...)
RPCResponse(request_msg) ==
    [cls |-> "RPCResponse", sender_id |-> NoneId, pub_dt |-> NoneInt,
     pub_counter |-> NoneInt, request_msg |-> request_msg, duration |-> NoneInt,
     return_val |-> "None", cancelled |-> "None", traceback_str |-> NoneStr]

\* RPCResponse.errored
errored(resp) == resp.traceback_str # NoneStr

\* RPCResponse.completed: not self.cancelled and not self.errored
completed(resp) == ~(resp.cancelled = "True") /\ ~errored(resp)

\* RPCStatus(server_id=..., cur_request=...)
RPCStatus(server_id, cur_request) ==
    [server_id |-> server_id, cur_request |-> cur_request]

\* RPCStatus.ready
ready(status) == status.cur_request = NoneMsg

\* pydantic's .json(): the fields of the object, nested objects included; the
\* Python class of the object is not part of the text
RECURSIVE Json(_)
Json(msg) ==
    [f \in DOMAIN msg \ {"cls"} |->
        IF f \in {"request_msg", "cur_request"} /\ msg[f] # NoneMsg
        THEN Json(msg[f]) ELSE msg[f]]

\* pydantic's parse_raw for RPCRequest: the declared fields only, any other
\* field of the text is ignored
ParseRPCRequest(raw) ==
    [cls |-> "RPCRequest", sender_id |-> raw.sender_id, pub_dt |-> raw.pub_dt,
     pub_counter |-> raw.pub_counter]

\* msg_cls.parse_raw(data) for the message classes of the RPC topics
ParseRaw(msg_cls, raw) ==
    CASE msg_cls \in {"DebugRequest", "Debug"} ->
            [cls |-> msg_cls, sender_id |-> raw.sender_id, pub_dt |-> raw.pub_dt,
             pub_counter |-> raw.pub_counter, content |-> raw.content]
      [] msg_cls = "RPCRequest" -> ParseRPCRequest(raw)
      [] msg_cls = "RPCResponse" ->
            [cls |-> "RPCResponse", sender_id |-> raw.sender_id, pub_dt |-> raw.pub_dt,
             pub_counter |-> raw.pub_counter,
             request_msg |-> IF raw.request_msg = NoneMsg THEN NoneMsg
                             ELSE ParseRPCRequest(raw.request_msg),
             duration |-> raw.duration, return_val |-> raw.return_val,
             cancelled |-> raw.cancelled, traceback_str |-> raw.traceback_str]
      [] OTHER ->
            [cls |-> msg_cls, sender_id |-> raw.sender_id, pub_dt |-> raw.pub_dt,
             pub_counter |-> raw.pub_counter]

\* RPCStatus.parse_raw: cur_request is declared Optional[RPCRequest]
ParseRPCStatus(raw) ==
    RPCStatus(raw.server_id,
              IF raw.cur_request = NoneMsg THEN NoneMsg
              ELSE ParseRPCRequest(raw.cur_request))

\* TopicSpec
TopicSpec(channel, msg_cls, max_single_latency, max_avg_latency) ==
    [channel |-> channel, msg_cls |-> msg_cls,
     max_single_latency |-> max_single_latency, max_avg_latency |-> max_avg_latency]

\* RPCSpec: the RPC the model is about, registry.RPCSpecs.DEBUG
base_channel == "debug"
rpc_slug == "rpc-"
RpcMaxSingleLatency == 10   \* max_single_latency=0.1, in units of 10 ms
RpcMaxAvgLatency == 10      \* max_avg_latency=0.1, in units of 10 ms

\* RPCSpec.__init__
RPCSpec(of_base_channel, request_msg_cls) ==
    [base_channel |-> of_base_channel, request_msg_cls |-> request_msg_cls]

\* RPCSpec.request_topic_spec
RPCSpec_request_topic_spec(self) ==
    TopicSpec(rpc_slug \o "request-" \o self.base_channel, self.request_msg_cls,
              RpcMaxSingleLatency, RpcMaxAvgLatency)

\* RPCSpec.get_response_topic_spec; requester_id is the NodeID's name
RPCSpec_get_response_topic_spec(self, requester_id) ==
    TopicSpec(rpc_slug \o "response-" \o self.base_channel \o "-" \o requester_id,
              "RPCResponse", RpcMaxSingleLatency, RpcMaxAvgLatency)

\* cancel_topic_spec built on the request channel
RPCSpec_cancel_topic_spec_on_request(self) ==
    TopicSpec(rpc_slug \o "request-" \o self.base_channel, "RPCCancel",
              RpcMaxSingleLatency, RpcMaxAvgLatency)

\* RPCSpec.cancel_topic_spec
RPCSpec_cancel_topic_spec(self) ==
    TopicSpec(rpc_slug \o "cancel-" \o self.base_channel, "RPCCancel",
              RpcMaxSingleLatency, RpcMaxAvgLatency)

\* RPCSpec.status_key
RPCSpec_status_key(self) == rpc_slug \o "status-" \o self.base_channel

\* the same, of the RPC the clients and servers of the model are given
debug_rpc_spec == RPCSpec(base_channel, "DebugRequest")

request_topic_spec == RPCSpec_request_topic_spec(debug_rpc_spec)

get_response_topic_spec(requester_id) ==
    RPCSpec_get_response_topic_spec(debug_rpc_spec, requester_id)

cancel_topic_spec == RPCSpec_cancel_topic_spec(debug_rpc_spec)

status_key == RPCSpec_status_key(debug_rpc_spec)

\* TopicSpec's defaults, in units of 10 ms
DefaultMaxSingleLatency == 5   \* max_single_latency: float = 0.05
DefaultMaxAvgLatency == 1      \* max_avg_latency: float = 0.01

\* the plain topic the model is about, registry.TopicSpecs.DEBUG
debug_topic_spec ==
    TopicSpec("debug", "Debug", DefaultMaxSingleLatency, DefaultMaxAvgLatency)

Channels ==
    {request_topic_spec.channel, cancel_topic_spec.channel, debug_topic_spec.channel}
        \cup {get_response_topic_spec(c).channel : c \in Clients}

----------------------------------------------------------------------------
(* ipc/pubsub.py: Publisher *)

\* Publisher.__init__
Publisher(id, topic_spec) ==
    [node_id |-> id, topic_spec |-> topic_spec, pub_counter |-> 0]

\* publish with the counter stamped but never advanced
publish_counter_stuck(pub, msg, t) ==
    LET stamped == [msg EXCEPT !.sender_id = pub.node_id,
                               !.pub_dt = t,
                               !.pub_counter = pub.pub_counter]
    IN  [raised |-> ~IsSubclass(msg.cls, pub.topic_spec.msg_cls),
         msg |-> stamped, data |-> Json(stamped), pub |-> pub]

\* publish that checks the type only after it has stamped and counted
publish_stamps_rejected(pub, msg, t) ==
    LET stamped == [msg EXCEPT !.sender_id = pub.node_id,
                               !.pub_dt = t,
                               !.pub_counter = pub.pub_counter]
    IN  [raised |-> ~IsSubclass(msg.cls, pub.topic_spec.msg_cls),
         msg |-> stamped, data |-> Json(stamped),
         pub |-> [pub EXCEPT !.pub_counter = @ + 1]]

\* publish that keeps a sender_id the message already carries
publish_keeps_sender(pub, msg, t) ==
    LET stamped == [msg EXCEPT !.sender_id = IF @ = NoneId THEN pub.node_id ELSE @,
                               !.pub_dt = t,
                               !.pub_counter = pub.pub_counter]
    IN  IF ~IsSubclass(msg.cls, pub.topic_spec.msg_cls)
        THEN [raised |-> TRUE, msg |-> msg, data |-> Json(msg), pub |-> pub]
        ELSE [raised |-> FALSE, msg |-> stamped, data |-> Json(stamped),
              pub |-> [pub EXCEPT !.pub_counter = @ + 1]]

\* Publisher.publish at time t: whether it raises TypeError and, when it does
\* not, the stamped message object, the text handed to the broker and the
\* publisher afterwards
publish(pub, msg, t) ==
    LET stamped == [msg EXCEPT !.sender_id = pub.node_id,
                               !.pub_dt = t,
                               !.pub_counter = pub.pub_counter]
    IN  IF ~IsSubclass(msg.cls, pub.topic_spec.msg_cls)
        THEN [raised |-> TRUE, msg |-> msg, data |-> Json(msg), pub |-> pub]
        ELSE [raised |-> FALSE, msg |-> stamped, data |-> Json(stamped),
              pub |-> [pub EXCEPT !.pub_counter = @ + 1]]

\* redis PUBLISH: the broker appends the text to the channel
BrokerPublish(channel, data) ==
    log' = [log EXCEPT ![channel] = Append(@, data)]

----------------------------------------------------------------------------
(* ipc/pubsub.py: Subscriber *)

LATENCY_WINDOW_S == 100   \* 1 second, in units of 10 ms

\* a subscriber attribute of an object whose constructor has not created it
NoSub == [state |-> "absent"]

\* Subscriber.__init__: subscribes to the channel, and so receives what the
\* broker accepts on it from now on
Subscriber(topic_spec, has_callback) ==
    [state |-> "open", topic_spec |-> topic_spec, has_callback |-> has_callback,
     start |-> Len(log[topic_spec.channel]), cursor |-> Len(log[topic_spec.channel]),
     pub_counters |-> <<>>, unexpected_msgs |-> <<>>,
     latency_records |-> <<>>, latency_issue_count |-> 0]

\* the pubsub client has a delivery of type "message" to hand out
HasDelivery(sub) ==
    /\ sub.state = "open"
    /\ sub.cursor < Len(log[sub.topic_spec.channel])

NextDelivery(sub) == log[sub.topic_spec.channel][sub.cursor + 1]

RECURSIVE SumLatency(_)
SumLatency(records) ==
    IF records = <<>> THEN 0
    ELSE Head(records).msg_latency + SumLatency(Tail(records))

\* the new_start_ix of Subscriber._update_latency_records (a Python index,
\* from 0): one before the first record inside the window
NewStartIx(records, now_ts) ==
    LET inside == {ix \in 0..(Len(records) - 1) :
                      records[ix + 1].msg_rcv_ts > now_ts - LATENCY_WINDOW_S}
        first == CHOOSE ix \in inside : \A other \in inside : ix <= other
    IN  IF inside = {} THEN 0
        ELSE IF first - 1 > 0 THEN first - 1 ELSE 0

\* Subscriber._update_latency_records: the subscriber afterwards and the
\* window_ready it returns
update_latency_records(sub, msg, t) ==
    IF msg.pub_dt = NoneInt
    THEN [sub |-> sub, window_ready |-> FALSE]
    ELSE LET appended == Append(sub.latency_records,
                                [msg_rcv_ts |-> t, msg_latency |-> t - msg.pub_dt])
             kept == SubSeq(appended, NewStartIx(appended, t) + 1, Len(appended))
         IN  [sub |-> [sub EXCEPT !.latency_records = kept],
              window_ready |-> (t - kept[1].msg_rcv_ts >= LATENCY_WINDOW_S)]

\* _check_latency that checks before the window has its second of data
check_latency_ignores_window(sub, msg, t) ==
    LET upd == update_latency_records(sub, msg, t)
        recs == upd.sub.latency_records
        single == recs[Len(recs)].msg_latency > sub.topic_spec.max_single_latency
        avg == SumLatency(recs) > sub.topic_spec.max_avg_latency * Len(recs)
        count == upd.sub.latency_issue_count
                    + (IF single THEN 1 ELSE 0) + (IF avg THEN 1 ELSE 0)
    IN  IF msg.pub_dt = NoneInt THEN upd.sub
        ELSE [upd.sub EXCEPT !.latency_issue_count = count,
                             !.latency_records = IF avg THEN <<>> ELSE @]

\* _check_latency that keeps its records after an average-latency warning
check_latency_keeps_records(sub, msg, t) ==
    LET upd == update_latency_records(sub, msg, t)
        recs == upd.sub.latency_records
        single == recs[Len(recs)].msg_latency > sub.topic_spec.max_single_latency
        avg == SumLatency(recs) > sub.topic_spec.max_avg_latency * Len(recs)
        count == upd.sub.latency_issue_count
                    + (IF single THEN 1 ELSE 0) + (IF avg THEN 1 ELSE 0)
    IN  IF ~upd.window_ready THEN upd.sub
        ELSE [upd.sub EXCEPT !.latency_issue_count = count]

\* Subscriber._check_latency
check_latency(sub, msg, t) ==
    LET upd == update_latency_records(sub, msg, t)
        recs == upd.sub.latency_records
        single == recs[Len(recs)].msg_latency > sub.topic_spec.max_single_latency
        \* np.mean(latencies) > max_avg_latency
        avg == SumLatency(recs) > sub.topic_spec.max_avg_latency * Len(recs)
        count == upd.sub.latency_issue_count
                    + (IF single THEN 1 ELSE 0) + (IF avg THEN 1 ELSE 0)
    IN  IF ~upd.window_ready THEN upd.sub
        ELSE [upd.sub EXCEPT !.latency_issue_count = count,
                             !.latency_records = IF avg THEN <<>> ELSE @]

\* the ordering check taking the first message of a sender to be number 0
check_msg_ordering_expects_zero(sub, msg) ==
    IF msg.sender_id = NoneId \/ msg.pub_counter = NoneInt THEN sub
    ELSE LET stored == IF msg.sender_id \in DOMAIN sub.pub_counters
                       THEN sub.pub_counters[msg.sender_id] ELSE -1
             others == [p \in DOMAIN sub.pub_counters \ {msg.sender_id} |->
                            sub.pub_counters[p]]
         IN  [sub EXCEPT !.pub_counters = others @@ (msg.sender_id :> msg.pub_counter),
                         !.unexpected_msgs =
                            IF stored + 1 # msg.pub_counter THEN Append(@, msg) ELSE @]

\* the ordering check comparing without the increment
check_msg_ordering_no_increment(sub, msg) ==
    IF msg.sender_id = NoneId \/ msg.pub_counter = NoneInt THEN sub
    ELSE IF msg.sender_id \notin DOMAIN sub.pub_counters
    THEN [sub EXCEPT !.pub_counters = @ @@ (msg.sender_id :> msg.pub_counter)]
    ELSE IF sub.pub_counters[msg.sender_id] # msg.pub_counter
    THEN [sub EXCEPT !.unexpected_msgs = Append(@, msg),
                     !.pub_counters[msg.sender_id] = msg.pub_counter]
    ELSE [sub EXCEPT !.pub_counters[msg.sender_id] = @ + 1]

\* the ordering check without the resync after a mismatch
check_msg_ordering_no_resync(sub, msg) ==
    IF msg.sender_id = NoneId \/ msg.pub_counter = NoneInt THEN sub
    ELSE IF msg.sender_id \notin DOMAIN sub.pub_counters
    THEN [sub EXCEPT !.pub_counters = @ @@ (msg.sender_id :> msg.pub_counter)]
    ELSE IF sub.pub_counters[msg.sender_id] + 1 # msg.pub_counter
    THEN [sub EXCEPT !.unexpected_msgs = Append(@, msg),
                     !.pub_counters[msg.sender_id] = @ + 1]
    ELSE [sub EXCEPT !.pub_counters[msg.sender_id] = @ + 1]

\* the ordering check with one stored counter for all senders
check_msg_ordering_one_counter(sub, msg) ==
    IF msg.sender_id = NoneId \/ msg.pub_counter = NoneInt THEN sub
    ELSE IF DOMAIN sub.pub_counters = {}
    THEN [sub EXCEPT !.pub_counters = (msg.sender_id :> msg.pub_counter)]
    ELSE LET stored == sub.pub_counters[CHOOSE q \in DOMAIN sub.pub_counters : TRUE]
         IN  [sub EXCEPT !.pub_counters = (msg.sender_id :> msg.pub_counter),
                         !.unexpected_msgs =
                            IF stored + 1 # msg.pub_counter THEN Append(@, msg) ELSE @]

\* Subscriber._check_msg_ordering
check_msg_ordering(sub, msg) ==
    IF msg.sender_id = NoneId \/ msg.pub_counter = NoneInt THEN sub
    ELSE IF msg.sender_id \notin DOMAIN sub.pub_counters
    THEN [sub EXCEPT !.pub_counters = @ @@ (msg.sender_id :> msg.pub_counter)]
    ELSE IF sub.pub_counters[msg.sender_id] + 1 # msg.pub_counter
    THEN [sub EXCEPT !.unexpected_msgs = Append(@, msg),
                     !.pub_counters[msg.sender_id] = msg.pub_counter]
    ELSE [sub EXCEPT !.pub_counters[msg.sender_id] = @ + 1]

\* Subscriber.get_msg when the pubsub client hands out a delivery at time t:
\* the message it returns and the subscriber afterwards
get_msg(sub, t) ==
    LET msg == ParseRaw(sub.topic_spec.msg_cls, NextDelivery(sub))
        taken == [sub EXCEPT !.cursor = @ + 1]
    IN  [msg |-> msg, sub |-> check_msg_ordering(check_latency(taken, msg, t), msg)]

\* Subscriber.close
close_sub(sub) ==
    [sub EXCEPT !.pub_counters = <<>>, !.state = "closed"]

\* a listen loop that fetches the next message while the callback is awaited
listen_fetches_during_callback(pc) == pc \in {"get_msg", "callback"}

\* Subscriber.listen: it calls get_msg() only where it stands at
\* `msg = await self.get_msg()`, not while it awaits the callback
listen_fetches(pc) == pc = "get_msg"

----------------------------------------------------------------------------
(* base_node.py, ipc/pubsub.py: nodes that publish and subscribe on a topic *)

\* what a node passes to publish(): a new Debug message, a Debug message
\* that already carries transport fields (one received from another node),
\* and a message of another class
PublishArgs ==
    {Debug("hi"),
     [Debug("hi") EXCEPT !.sender_id = "simulator", !.pub_dt = 5, !.pub_counter = 7],
     DebugRequest("go")}

\* BaseNode.publish(topic_spec, msg) of node p: Publisher.publish, which raises
\* TypeError or hands the text to the broker
NodePublish(p) ==
    /\ budget.publishes > 0
    /\ budget' = [budget EXCEPT !.publishes = @ - 1]
    /\ \E msg \in PublishArgs :
          LET out == publish(topic_pub[p], msg, now)
          IN  /\ publish_ret' = [node |-> p, arg |-> msg, msg |-> out.msg,
                                 raised |-> out.raised]
              /\ topic_pub' = [topic_pub EXCEPT ![p] = out.pub]
              /\ IF out.raised THEN UNCHANGED log
                 ELSE BrokerPublish(topic_pub[p].topic_spec.channel, out.data)
    /\ UNCHANGED <<now, kv, srv_vars, cli_vars, topic_sub, listen_pc, callback_msgs,
                   callbacks_running>>
    /\ UNCHANGED node_vars

\* BaseNode.add_subscribers and _create_tasks: the Subscriber is constructed
\* and its listen() started
NodeSubscribe ==
    /\ listen_pc = "absent"
    /\ topic_sub' = Subscriber(debug_topic_spec, TRUE)
    /\ listen_pc' = "get_msg"
    /\ UNCHANGED <<now, kv, log, srv_vars, cli_vars, topic_pub, publish_ret,
                   callback_msgs, callbacks_running, budget>>
    /\ UNCHANGED node_vars

\* Subscriber.listen: get_msg() returns a message and the callback is called
\* with it
ListenGetMsg ==
    /\ listen_fetches(listen_pc)
    /\ HasDelivery(topic_sub)
    /\ LET got == get_msg(topic_sub, now)
       IN  /\ topic_sub' = got.sub
           /\ callback_msgs' = Append(callback_msgs, got.msg)
    /\ callbacks_running' = callbacks_running + 1
    /\ listen_pc' = "callback"
    /\ UNCHANGED <<now, kv, log, srv_vars, cli_vars, topic_pub, publish_ret, budget>>
    /\ UNCHANGED node_vars

\* the callback completes, and listen() goes round its loop
CallbackDone ==
    /\ listen_pc = "callback"
    /\ callbacks_running' = callbacks_running - 1
    /\ listen_pc' = "get_msg"
    /\ UNCHANGED <<now, kv, log, srv_vars, cli_vars, topic_pub, publish_ret,
                   topic_sub, callback_msgs, budget>>
    /\ UNCHANGED node_vars

\* the broker discards a delivery of the subscription (redis pub/sub is
\* at-most-once): the subscriber never gets it
BrokerDrop ==
    /\ budget.drops > 0
    /\ budget' = [budget EXCEPT !.drops = @ - 1]
    /\ listen_pc # "absent"
    /\ HasDelivery(topic_sub)
    /\ topic_sub' = [topic_sub EXCEPT !.cursor = @ + 1]
    /\ UNCHANGED <<now, kv, log, srv_vars, cli_vars, topic_pub, publish_ret, listen_pc,
                   callback_msgs, callbacks_running>>
    /\ UNCHANGED node_vars

\* asyncio.iscoroutinefunction with everything passing as a coroutine function
iscoroutinefunction_any(func) == TRUE

\* asyncio.iscoroutinefunction
iscoroutinefunction(func) == func = "coroutine function"

\* BaseNode.__init__ and the node's add_subscribers / add_rpc_servers
\* arguments: the callback and the procedure function it passes on
BaseNode(callback, proc_func) ==
    [callback |-> callback, proc_func |-> proc_func]

\* Subscriber.__init__ with the node's callback, and listen() started on the
\* new subscriber: TypeError before it subscribes, or the subscription, after
\* which listen() returns at once (no callback) or waits in get_msg()
SubscriberInit ==
    /\ listen_pc = "absent"
    /\ IF node.callback # "None" /\ ~iscoroutinefunction(node.callback)
       THEN /\ listen_pc' = "init_raised"
            /\ UNCHANGED topic_sub
       ELSE /\ topic_sub' = Subscriber(debug_topic_spec, node.callback # "None")
            /\ listen_pc' = IF node.callback = "None" THEN "returned" ELSE "get_msg"
    /\ UNCHANGED <<now, kv, log, srv_vars, cli_vars, topic_pub, publish_ret,
                   callback_msgs, callbacks_running, node_vars, budget>>

\* Subscriber.close
SubscriberClose ==
    /\ listen_pc \in {"get_msg", "callback", "returned"}
    /\ topic_sub.state = "open"
    /\ topic_sub' = close_sub(topic_sub)
    /\ UNCHANGED <<now, kv, log, srv_vars, cli_vars, topic_pub, publish_ret, listen_pc,
                   callback_msgs, callbacks_running, node_vars, budget>>

\* Subscriber.listen in get_msg() after close(): get_message() of the closed
\* pubsub client raises (redis-py 3: RuntimeError, connection not set) or
\* hands out nothing (redis-py 4), and then get_msg() sleeps and polls again
ListenPollClosed ==
    /\ listen_fetches(listen_pc)
    /\ topic_sub.state = "closed"
    /\ \/ listen_pc' = "raised"
       \/ listen_pc' = listen_pc
    /\ UNCHANGED <<now, kv, log, srv_vars, cli_vars, topic_pub, publish_ret, topic_sub,
                   callback_msgs, callbacks_running, node_vars, budget>>

\* time passes (datetime.now() and time.time() read a later time)
Tick ==
    /\ now + TickStep <= ClockEnd
    /\ now' = now + TickStep
    /\ UNCHANGED <<kv, log, srv_vars, cli_vars, topic_vars, node_vars, budget>>

\* the four addresses of an RPCSpec, none read yet
NoAddresses ==
    [request |-> NoneStr, cancel |-> NoneStr, status |-> NoneStr, response |-> NoneStr]

\* a caller reads request_topic_spec.channel of its i-th RPCSpec object
ReadRequestChannel(i) ==
    /\ derived.out[i].request = NoneStr
    /\ derived' = [derived EXCEPT !.out[i].request =
                      RPCSpec_request_topic_spec(derived.specs[i]).channel]
    /\ UNCHANGED <<now, kv, log, srv_vars, cli_vars, topic_vars, node, budget>>

\* a caller reads cancel_topic_spec.channel of its i-th RPCSpec object
ReadCancelChannel(i) ==
    /\ derived.out[i].cancel = NoneStr
    /\ derived' = [derived EXCEPT !.out[i].cancel =
                      RPCSpec_cancel_topic_spec(derived.specs[i]).channel]
    /\ UNCHANGED <<now, kv, log, srv_vars, cli_vars, topic_vars, node, budget>>

\* a caller reads status_key of its i-th RPCSpec object
ReadStatusKey(i) ==
    /\ derived.out[i].status = NoneStr
    /\ derived' = [derived EXCEPT !.out[i].status = RPCSpec_status_key(derived.specs[i])]
    /\ UNCHANGED <<now, kv, log, srv_vars, cli_vars, topic_vars, node, budget>>

\* a caller reads get_response_topic_spec(requester).channel of its i-th
\* RPCSpec object
ReadResponseChannel(i) ==
    /\ derived.out[i].response = NoneStr
    /\ derived' = [derived EXCEPT !.out[i].response =
                      RPCSpec_get_response_topic_spec(derived.specs[i],
                                                      derived.requester).channel]
    /\ UNCHANGED <<now, kv, log, srv_vars, cli_vars, topic_vars, node, budget>>

\* the i-th client reads get_response_topic_spec(own NodeID).channel of its
\* RPCSpec object (RPCClient.__init__)
ClientResponseChannel(i) ==
    /\ derived.out[i] = NoneStr
    /\ derived' = [derived EXCEPT !.out[i] =
                      RPCSpec_get_response_topic_spec(derived.specs[i],
                                                      derived.requesters[i]).channel]
    /\ UNCHANGED <<now, kv, log, srv_vars, cli_vars, topic_vars, node, budget>>

\* texts of Debug messages that lack pub_dt, sender_id or pub_counter
RawMessages ==
    {raw \in [sender_id : {NoneId, "debug0"}, pub_dt : {NoneInt, 0},
              pub_counter : {NoneInt, 5}, content : {"raw"}] :
        raw.sender_id = NoneId \/ raw.pub_dt = NoneInt \/ raw.pub_counter = NoneInt}

\* a process writes such a text to the channel without a Publisher
RawPublish ==
    /\ budget.raws > 0
    /\ budget' = [budget EXCEPT !.raws = @ - 1]
    /\ \E raw \in RawMessages : BrokerPublish(debug_topic_spec.channel, raw)
    /\ UNCHANGED <<now, kv, srv_vars, cli_vars, topic_vars>>
    /\ UNCHANGED node_vars

----------------------------------------------------------------------------
(* ipc/rpc.py: RPCServerCall *)

\* RPCServerCall.__init__; task is the state of self._task: "None" before
\* execute() creates it, "running" until the procedure ends, then "returned"
\* (with result), "raised" or "cancelled"
RPCServerCall(request_msg) ==
    [request_msg |-> request_msg, task |-> "None", result |-> "None",
     start_ts |-> NoneInt]

\* RPCServerCall.execute up to its await: the task is created, the clock read
execute_start(call, t) ==
    [call EXCEPT !.task = "running", !.start_ts = t]

\* execute with the bare except also taking the cancellation
execute_cancel_as_error(call, t) ==
    LET response == RPCResponse(call.request_msg)
        filled ==
            CASE call.task = "returned" -> [response EXCEPT !.return_val = call.result]
              [] call.task = "cancelled" ->
                    [response EXCEPT !.cancelled = "True", !.traceback_str = "Traceback"]
              [] OTHER -> [response EXCEPT !.traceback_str = "Traceback"]
    IN  [filled EXCEPT !.duration = t - call.start_ts]

\* execute that swallows the procedure's exception without a traceback
execute_error_unreported(call, t) ==
    LET response == RPCResponse(call.request_msg)
        filled ==
            CASE call.task = "returned" -> [response EXCEPT !.return_val = call.result]
              [] call.task = "cancelled" -> [response EXCEPT !.cancelled = "True"]
              [] OTHER -> response
    IN  [filled EXCEPT !.duration = t - call.start_ts]

\* RPCServerCall.execute from its await on: the response it returns at time t
execute(call, t) ==
    LET response == RPCResponse(call.request_msg)
        filled ==
            CASE call.task = "returned" -> [response EXCEPT !.return_val = call.result]
              [] call.task = "cancelled" -> [response EXCEPT !.cancelled = "True"]
              [] OTHER -> [response EXCEPT !.traceback_str = "Traceback"]
    IN  [filled EXCEPT !.duration = t - call.start_ts]

\* cancel that never reaches the task
cancel_nothing(call) == call

\* RPCServerCall.cancel: Task.cancel() of a task that has ended changes nothing
cancel(call) ==
    IF call.task = "running" THEN [call EXCEPT !.task = "cancelled"] ELSE call

----------------------------------------------------------------------------
(* ipc/rpc.py: RPCServer *)

\* the duplicate check with its comparison inverted
update_status_raises_inverted(id, raw) ==
    /\ raw # NoneRaw
    /\ ParseRPCStatus(raw).server_id = id

\* the duplicate check left out
update_status_never_raises(id, raw) == FALSE

\* RPCServer._update_status after its GET: whether it raises
\* DuplicateServerError for the raw status read
update_status_raises(id, raw) ==
    /\ raw # NoneRaw
    /\ ParseRPCStatus(raw).server_id # id

\* RPCServer._update_status: the text it SETs
update_status_value(id, call) ==
    Json(RPCStatus(id, IF call = NoneMsg THEN NoneMsg ELSE call.request_msg))

\* RPCServer.__init__ up to the GET of _update_status, for a server given the
\* NodeID id
ServerInit(s) ==
    /\ srv_pc[s] = "new"
    /\ \E id \in ServerIds(s) : node_id' = [node_id EXCEPT ![s] = id]
    /\ raw_status' = [raw_status EXCEPT ![s] = kv[status_key]]
    /\ srv_pc' = [srv_pc EXCEPT ![s] = "init_got"]
    /\ UNCHANGED <<now, kv, log, cur_rpc_call, request_sub, cancel_sub, cli_vars, budget>>
    /\ UNCHANGED topic_vars
    /\ UNCHANGED node_vars

\* RPCServer.__init__: the rest of _update_status, which raises
\* DuplicateServerError out of the constructor or SETs the status
ServerInitStatus(s) ==
    /\ srv_pc[s] = "init_got"
    /\ IF update_status_raises(node_id[s], raw_status[s])
       THEN /\ srv_pc' = [srv_pc EXCEPT ![s] = "init_raised"]
            /\ UNCHANGED kv
       ELSE /\ kv' = [kv EXCEPT ![status_key] =
                        update_status_value(node_id[s], cur_rpc_call[s])]
            /\ srv_pc' = [srv_pc EXCEPT ![s] = "init_set"]
    /\ UNCHANGED <<now, log, node_id, raw_status, cur_rpc_call, request_sub,
                   cancel_sub, cli_vars, budget>>
    /\ UNCHANGED topic_vars
    /\ UNCHANGED node_vars

\* RPCServer.__init__: the two subscribers; serve() starts their loops
ServerInitSubscribe(s) ==
    /\ srv_pc[s] = "init_set"
    /\ request_sub' = [request_sub EXCEPT ![s] = Subscriber(request_topic_spec, TRUE)]
    /\ cancel_sub' = [cancel_sub EXCEPT ![s] = Subscriber(cancel_topic_spec, TRUE)]
    /\ srv_pc' = [srv_pc EXCEPT ![s] = "listen"]
    /\ UNCHANGED <<now, kv, log, node_id, raw_status, cur_rpc_call, cli_vars, budget>>
    /\ UNCHANGED topic_vars
    /\ UNCHANGED node_vars

\* RPCServer.__init__ with a procedure function that is not a coroutine
\* function: TypeError, raised before _update_status
ServerInitRejected(s) ==
    /\ srv_pc[s] = "new"
    /\ ~iscoroutinefunction(node.proc_func)
    /\ \E id \in ServerIds(s) : node_id' = [node_id EXCEPT ![s] = id]
    /\ srv_pc' = [srv_pc EXCEPT ![s] = "init_type_raised"]
    /\ UNCHANGED <<now, kv, log, raw_status, cur_rpc_call, request_sub, cancel_sub,
                   cli_vars, topic_vars, node_vars, budget>>

\* RPCServer.__init__ with a procedure function that passes the check
ServerInitAccepted(s) ==
    /\ iscoroutinefunction(node.proc_func)
    /\ ServerInit(s)

\* a request loop that fetches the next request while a callback is awaited
ServerHandleRequest_overlapping(s) ==
    /\ srv_pc[s] \in {"listen", "await_task"}
    /\ HasDelivery(request_sub[s])
    /\ LET got == get_msg(request_sub[s], now)
       IN  /\ request_sub' = [request_sub EXCEPT ![s] = got.sub]
           /\ cur_rpc_call' = [cur_rpc_call EXCEPT ![s] = RPCServerCall(got.msg)]
    /\ raw_status' = [raw_status EXCEPT ![s] = kv[status_key]]
    /\ srv_pc' = [srv_pc EXCEPT ![s] = "req_got"]
    /\ UNCHANGED <<now, kv, log, node_id, cancel_sub, cli_vars, budget>>
    /\ UNCHANGED topic_vars
    /\ UNCHANGED node_vars

\* Subscriber.listen of the request subscriber gets a request and calls
\* RPCServer._handle_request, which runs up to the GET of _update_status
ServerHandleRequest(s) ==
    /\ srv_pc[s] = "listen"
    /\ HasDelivery(request_sub[s])
    /\ LET got == get_msg(request_sub[s], now)
       IN  /\ request_sub' = [request_sub EXCEPT ![s] = got.sub]
           /\ cur_rpc_call' = [cur_rpc_call EXCEPT ![s] = RPCServerCall(got.msg)]
    /\ raw_status' = [raw_status EXCEPT ![s] = kv[status_key]]
    /\ srv_pc' = [srv_pc EXCEPT ![s] = "req_got"]
    /\ UNCHANGED <<now, kv, log, node_id, cancel_sub, cli_vars, budget>>
    /\ UNCHANGED topic_vars
    /\ UNCHANGED node_vars

\* _handle_request that trusts the ownership check of the constructor
ServerExecute_unchecked(s) ==
    /\ srv_pc[s] = "req_got"
    /\ kv' = [kv EXCEPT ![status_key] = update_status_value(node_id[s], cur_rpc_call[s])]
    /\ cur_rpc_call' = [cur_rpc_call EXCEPT ![s] = execute_start(@, now)]
    /\ srv_pc' = [srv_pc EXCEPT ![s] = "await_task"]
    /\ UNCHANGED <<now, log, node_id, raw_status, request_sub, cancel_sub, cli_vars, budget>>
    /\ UNCHANGED topic_vars
    /\ UNCHANGED node_vars

\* RPCServer._handle_request: the rest of the first _update_status, then
\* execute() up to its await.  DuplicateServerError ends the request loop.
ServerExecute(s) ==
    /\ srv_pc[s] = "req_got"
    /\ IF update_status_raises(node_id[s], raw_status[s])
       THEN /\ srv_pc' = [srv_pc EXCEPT ![s] = "raised"]
            /\ UNCHANGED <<kv, cur_rpc_call>>
       ELSE /\ kv' = [kv EXCEPT ![status_key] =
                        update_status_value(node_id[s], cur_rpc_call[s])]
            /\ cur_rpc_call' = [cur_rpc_call EXCEPT ![s] = execute_start(@, now)]
            /\ srv_pc' = [srv_pc EXCEPT ![s] = "await_task"]
    /\ UNCHANGED <<now, log, node_id, raw_status, request_sub, cancel_sub, cli_vars, budget>>
    /\ UNCHANGED topic_vars
    /\ UNCHANGED node_vars

\* the procedure function returns a value
ProcedureReturns(s) ==
    /\ srv_pc[s] = "await_task"
    /\ cur_rpc_call[s].task = "running"
    /\ \E val \in ReturnVals :
          cur_rpc_call' = [cur_rpc_call EXCEPT ![s].task = "returned", ![s].result = val]
    /\ UNCHANGED <<now, kv, log, node_id, srv_pc, raw_status, request_sub, cancel_sub,
                   cli_vars, budget>>
    /\ UNCHANGED topic_vars
    /\ UNCHANGED node_vars

\* the procedure function raises an exception
ProcedureRaises(s) ==
    /\ srv_pc[s] = "await_task"
    /\ cur_rpc_call[s].task = "running"
    /\ cur_rpc_call' = [cur_rpc_call EXCEPT ![s].task = "raised"]
    /\ UNCHANGED <<now, kv, log, node_id, srv_pc, raw_status, request_sub, cancel_sub,
                   cli_vars, budget>>
    /\ UNCHANGED topic_vars
    /\ UNCHANGED node_vars

\* _handle_cancel that keeps a cancel which finds no call for the next call
handle_cancel_kept(call) ==
    IF call # NoneMsg THEN cancel(call)
    ELSE [RPCServerCall(NoneMsg) EXCEPT !.task = "cancelled"]

\* RPCServer._handle_cancel: self._cur_rpc_call afterwards
handle_cancel(call) ==
    IF call # NoneMsg THEN cancel(call) ELSE call

\* a cancel that also discards the requests waiting behind the current one
ServerHandleCancel_flushing(s) ==
    /\ srv_pc[s] \in {"listen", "await_task", "raised"}
    /\ HasDelivery(cancel_sub[s])
    /\ cancel_sub' = [cancel_sub EXCEPT ![s] = get_msg(@, now).sub]
    /\ cur_rpc_call' = [cur_rpc_call EXCEPT ![s] = handle_cancel(@)]
    /\ request_sub' = [request_sub EXCEPT
                          ![s].cursor = Len(log[request_topic_spec.channel])]
    /\ UNCHANGED <<now, kv, log, node_id, srv_pc, raw_status, cli_vars, budget>>
    /\ UNCHANGED topic_vars
    /\ UNCHANGED node_vars

\* Subscriber.listen of the cancel subscriber gets a cancel and calls
\* RPCServer._handle_cancel; it runs while the request loop is suspended
ServerHandleCancel(s) ==
    /\ srv_pc[s] \in {"listen", "await_task", "raised"}
    /\ HasDelivery(cancel_sub[s])
    /\ cancel_sub' = [cancel_sub EXCEPT ![s] = get_msg(@, now).sub]
    /\ cur_rpc_call' = [cur_rpc_call EXCEPT ![s] = handle_cancel(@)]
    /\ UNCHANGED <<now, kv, log, node_id, srv_pc, raw_status, request_sub, cli_vars, budget>>
    /\ UNCHANGED topic_vars
    /\ UNCHANGED node_vars

\* _publish_response on one response topic for all requesters
publish_response_shared(id, rpc_response, t) ==
    LET response_pub == Publisher(id, get_response_topic_spec("c1"))
    IN  [channel |-> response_pub.topic_spec.channel,
         data |-> publish(response_pub, rpc_response, t).data]

\* RPCServer._publish_response: the channel and text it publishes, through a
\* publisher made for this one response
publish_response(id, rpc_response, t) ==
    LET response_pub ==
            Publisher(id, get_response_topic_spec(rpc_response.request_msg.sender_id))
    IN  [channel |-> response_pub.topic_spec.channel,
         data |-> publish(response_pub, rpc_response, t).data]

\* RPCServer._handle_request: execute() resumes when the task has ended and
\* returns the response, which _publish_response publishes
ServerPublishResponse(s) ==
    /\ srv_pc[s] = "await_task"
    /\ cur_rpc_call[s].task \in {"returned", "raised", "cancelled"}
    /\ LET rpc_response == execute(cur_rpc_call[s], now)
       IN  IF \/ rpc_response.request_msg = NoneMsg
              \/ rpc_response.request_msg.sender_id = NoneId
           THEN UNCHANGED log
           ELSE LET out == publish_response(node_id[s], rpc_response, now)
                IN  BrokerPublish(out.channel, out.data)
    /\ srv_pc' = [srv_pc EXCEPT ![s] = "published"]
    /\ UNCHANGED <<now, kv, node_id, raw_status, cur_rpc_call, request_sub, cancel_sub,
                   cli_vars, budget>>
    /\ UNCHANGED topic_vars
    /\ UNCHANGED node_vars

\* RPCServer._handle_request: the call is cleared, and the second
\* _update_status runs up to its GET
ServerClearCall(s) ==
    /\ srv_pc[s] = "published"
    /\ cur_rpc_call' = [cur_rpc_call EXCEPT ![s] = NoneMsg]
    /\ raw_status' = [raw_status EXCEPT ![s] = kv[status_key]]
    /\ srv_pc' = [srv_pc EXCEPT ![s] = "fin_got"]
    /\ UNCHANGED <<now, kv, log, node_id, request_sub, cancel_sub, cli_vars, budget>>
    /\ UNCHANGED topic_vars
    /\ UNCHANGED node_vars

\* RPCServer._handle_request: the rest of the second _update_status; the
\* request loop then waits for the next request
ServerFinishRequest(s) ==
    /\ srv_pc[s] = "fin_got"
    /\ IF update_status_raises(node_id[s], raw_status[s])
       THEN /\ srv_pc' = [srv_pc EXCEPT ![s] = "raised"]
            /\ UNCHANGED kv
       ELSE /\ kv' = [kv EXCEPT ![status_key] =
                        update_status_value(node_id[s], cur_rpc_call[s])]
            /\ srv_pc' = [srv_pc EXCEPT ![s] = "listen"]
    /\ UNCHANGED <<now, log, node_id, raw_status, cur_rpc_call, request_sub,
                   cancel_sub, cli_vars, budget>>
    /\ UNCHANGED topic_vars
    /\ UNCHANGED node_vars

Closed(s) == request_sub[s].state = "closed"

\* close that leaves the status key in the store
ServerClose_keeps_status(s) ==
    /\ srv_pc[s] \in {"listen", "await_task", "raised"}
    /\ ~Closed(s)
    /\ budget.closes > 0
    /\ budget' = [budget EXCEPT !.closes = @ - 1]
    /\ request_sub' = [request_sub EXCEPT ![s] = close_sub(@)]
    /\ cancel_sub' = [cancel_sub EXCEPT ![s] = close_sub(@)]
    /\ UNCHANGED <<now, kv, log, node_id, srv_pc, raw_status, cur_rpc_call, cli_vars>>
    /\ UNCHANGED topic_vars
    /\ UNCHANGED node_vars

\* RPCServer.close, called while the request loop is suspended or has ended
ServerClose(s) ==
    /\ srv_pc[s] \in {"listen", "await_task", "raised"}
    /\ ~Closed(s)
    /\ budget.closes > 0
    /\ budget' = [budget EXCEPT !.closes = @ - 1]
    /\ kv' = [kv EXCEPT ![status_key] = NoneRaw]
    /\ request_sub' = [request_sub EXCEPT ![s] = close_sub(@)]
    /\ cancel_sub' = [cancel_sub EXCEPT ![s] = close_sub(@)]
    /\ UNCHANGED <<now, log, node_id, srv_pc, raw_status, cur_rpc_call, cli_vars>>
    /\ UNCHANGED topic_vars
    /\ UNCHANGED node_vars

----------------------------------------------------------------------------
(* ipc/rpc.py: RPCClient *)

----------------------------------------------------------------------------
(* base_node.py: BaseNode.run and stop *)

\* what a task of the node may raise
TaskExceptions == {"KeyboardInterrupt", "BlockingIOError", "Exception"}

\* a node configured with one asynchronous and one blocking task function
\* (add_tasks), before run()
NodeWithTasks ==
    [callback |-> "None", proc_func |-> "coroutine function",
     run_pc |-> "new",       \* "gather", "coro_done", then "returned" or "raised"
     tasks |-> [serve |-> "none", user |-> "none", blocking |-> "none"],
     exc |-> "None",         \* what the gather of _run_coro raised
     pending |-> "None",     \* what _run_coro raised
     stops |-> 0]            \* calls of stop()

\* the node has an RPC server (add_rpc_servers)
HasServer(s) == srv_pc[s] # "absent"

\* the request loop of the server is at an await, where other tasks of the
\* event loop run, or has ended
AtAwait(s) == srv_pc[s] \in {"absent", "listen", "await_task", "cancelled", "raised"}

\* Task.cancel() of the task that runs listen() of the request subscriber
\* (by the cancel of serve()'s gather, or directly): in get_msg()'s sleep
\* CancelledError ends the loop; in execute()'s `await self._task` it cancels
\* the procedure task and is caught by execute()'s except clause, and the
\* loop goes on
request_loop_cancel(pc, call) ==
    IF pc = "listen" THEN [pc |-> "cancelled", call |-> call]
    ELSE IF pc = "await_task" THEN [pc |-> pc, call |-> [call EXCEPT !.task = "cancelled"]]
    ELSE [pc |-> pc, call |-> call]

\* task.cancel() for each of _running_tasks: the serve() tasks and the
\* asynchronous user tasks; the blocking function is not among them
cancel_running_tasks(tasks) ==
    [tasks EXCEPT !.serve = IF @ = "running" THEN "cancelled" ELSE @,
                  !.user = IF @ = "running" THEN "cancelled" ELSE @]

\* what asyncio.gather(*self._running_tasks) gives _run_coro: the exception
\* of a task, CancelledError for a cancelled task, "None" when every task
\* has returned, and "pending" otherwise
gather_result(n, has_server) ==
    LET awaited == IF has_server THEN {"serve", "user"} ELSE {"user"}
    IN  IF \E t \in awaited : n.tasks[t] = "raised" THEN n.exc
        ELSE IF \E t \in awaited : n.tasks[t] = "cancelled" THEN "CancelledError"
        ELSE IF \A t \in awaited : n.tasks[t] = "returned" THEN "None"
        ELSE "pending"

\* _run_coro with its cleanup in an else clause
run_coro_stops_on_success(exc) == exc = "None"

\* _run_coro: whether its finally clause calls stop() when the gather ended
\* with exc
run_coro_stops(exc) == TRUE

\* _run_coro: the exception it ends with when the gather ended with exc
run_coro_raises(exc) ==
    IF exc \in {"CancelledError", "KeyboardInterrupt", "BlockingIOError"}
    THEN "None" ELSE exc

\* run(): asyncio.run(self._run_coro()) begins, and _create_tasks starts
\* serve() of the server and the asynchronous task function as tasks and
\* submits the blocking function to the executor
RunStart ==
    /\ node.run_pc = "new"
    /\ srv_pc["s1"] \in {"absent", "listen"}
    /\ node' = [node EXCEPT !.run_pc = "gather",
                            !.tasks = [serve |-> IF HasServer("s1") THEN "running"
                                                 ELSE "none",
                                       user |-> "running", blocking |-> "running"]]
    /\ UNCHANGED <<now, kv, log, srv_vars, cli_vars, topic_vars, derived, budget>>

\* the request loop of serve(), once run() has started it
ServeHandleRequest(s) ==
    /\ node.run_pc # "new"
    /\ ServerHandleRequest(s)

\* the asynchronous user task returns
UserTaskReturns ==
    /\ node.run_pc = "gather"
    /\ AtAwait("s1")
    /\ node.tasks.user = "running"
    /\ node' = [node EXCEPT !.tasks.user = "returned"]
    /\ UNCHANGED <<now, kv, log, srv_vars, cli_vars, topic_vars, derived, budget>>

\* the asynchronous user task raises
UserTaskRaises ==
    /\ node.run_pc = "gather"
    /\ AtAwait("s1")
    /\ node.tasks.user = "running"
    /\ \E e \in TaskExceptions :
          node' = [node EXCEPT !.tasks.user = "raised", !.exc = e]
    /\ UNCHANGED <<now, kv, log, srv_vars, cli_vars, topic_vars, derived, budget>>

\* the blocking user function, which runs in a thread of the executor, returns
BlockingReturns ==
    /\ node.tasks.blocking = "running"
    /\ node' = [node EXCEPT !.tasks.blocking = "returned"]
    /\ UNCHANGED <<now, kv, log, srv_vars, cli_vars, topic_vars, derived, budget>>

\* stop(): sub.close() for the subscriber of self._subscribers, when the
\* node has registered one (add_subscribers)
close_subscribers(sub) ==
    IF sub.state = "open" THEN close_sub(sub) ELSE sub

\* stop() that also deletes the status key of the node's RPC server
stop_store_deletes(store) == [store EXCEPT ![status_key] = NoneRaw]

\* stop(): the key/value store afterwards; stop() makes no call of
\* RPCServer.close and none of the redis client
stop_store(store) == store

\* BaseNode.stop, called by a task function of the node while run() awaits
\* the gather
NodeStop ==
    /\ node.run_pc = "gather"
    /\ AtAwait("s1")
    /\ budget.stops > 0
    /\ budget' = [budget EXCEPT !.stops = @ - 1]
    /\ node' = [node EXCEPT !.stops = @ + 1, !.tasks = cancel_running_tasks(@)]
    /\ LET loop == request_loop_cancel(srv_pc["s1"], cur_rpc_call["s1"])
       IN  IF node.tasks.serve = "running"
           THEN /\ srv_pc' = [srv_pc EXCEPT !["s1"] = loop.pc]
                /\ cur_rpc_call' = [cur_rpc_call EXCEPT !["s1"] = loop.call]
           ELSE UNCHANGED <<srv_pc, cur_rpc_call>>
    /\ topic_sub' = close_subscribers(topic_sub)
    /\ kv' = stop_store(kv)
    /\ UNCHANGED <<now, log, node_id, raw_status, request_sub, cancel_sub, cli_vars,
                   topic_pub, publish_ret, listen_pc, callback_msgs, callbacks_running,
                   derived>>

\* _run_coro from its await on: the gather ends, the except clauses take
\* their three exceptions, and the finally clause calls stop(); _run_coro
\* then ends, and asyncio.run cancels every task that is left
\* (_cancel_all_tasks) and waits for those tasks to end
RunGatherEnds ==
    /\ node.run_pc = "gather"
    /\ AtAwait("s1")
    /\ LET exc == gather_result(node, HasServer("s1"))
           stopped == run_coro_stops(exc)
           \* stop() cancels serve(), whose gather cancels the request loop
           by_stop == IF stopped /\ node.tasks.serve = "running"
                      THEN request_loop_cancel(srv_pc["s1"], cur_rpc_call["s1"])
                      ELSE [pc |-> srv_pc["s1"], call |-> cur_rpc_call["s1"]]
           \* _cancel_all_tasks cancels the request loop itself
           loop == request_loop_cancel(by_stop.pc, by_stop.call)
       IN  /\ exc # "pending"
           /\ node' = [node EXCEPT !.run_pc = "coro_done",
                                   !.exc = exc,
                                   !.pending = run_coro_raises(exc),
                                   !.stops = IF stopped THEN @ + 1 ELSE @,
                                   !.tasks = cancel_running_tasks(@)]
           /\ srv_pc' = [srv_pc EXCEPT !["s1"] = loop.pc]
           /\ cur_rpc_call' = [cur_rpc_call EXCEPT !["s1"] = loop.call]
           /\ topic_sub' = IF stopped THEN close_subscribers(topic_sub) ELSE topic_sub
           /\ kv' = IF stopped THEN stop_store(kv) ELSE kv
    /\ UNCHANGED <<now, log, node_id, raw_status, request_sub, cancel_sub, cli_vars,
                   topic_pub, publish_ret, listen_pc, callback_msgs, callbacks_running,
                   derived, budget>>

\* asyncio.run returns or raises once every task of the event loop has
\* ended, and run() returns, or raises what _run_coro raised
RunEnds ==
    /\ node.run_pc = "coro_done"
    /\ srv_pc["s1"] \in {"absent", "cancelled", "raised"}
    /\ node.tasks.user # "running"
    /\ node' = [node EXCEPT !.run_pc = IF node.pending \in {"None", "KeyboardInterrupt"}
                                       THEN "returned" ELSE "raised"]
    /\ UNCHANGED <<now, kv, log, srv_vars, cli_vars, topic_vars, derived, budget>>

----------------------------------------------------------------------------
(* ipc/rpc.py: RPCClient, continued *)

\* RPCClient.get_status, from the raw status its GET returns
get_status(raw) ==
    IF raw = NoneRaw THEN NoneMsg ELSE ParseRPCStatus(raw)

\* RPCClient.call up to its await: the request is published
ClientCall(c) ==
    /\ cli_pc[c] = "idle"
    /\ budget.calls > 0
    /\ budget' = [budget EXCEPT !.calls = @ - 1]
    /\ \E content \in Contents :
          LET out == publish(request_pub[c], DebugRequest(content), now)
          IN  /\ ~out.raised
              /\ BrokerPublish(request_pub[c].topic_spec.channel, out.data)
              /\ request_pub' = [request_pub EXCEPT ![c] = out.pub]
              /\ call_req' = [call_req EXCEPT ![c] = out.msg]
    /\ call_ret' = [call_ret EXCEPT ![c] = NoneMsg]
    /\ cli_pc' = [cli_pc EXCEPT ![c] = "waiting"]
    /\ UNCHANGED <<now, kv, srv_vars, cancel_pub, response_sub>>
    /\ UNCHANGED topic_vars
    /\ UNCHANGED node_vars

\* RPCClient.call from its await on: get_msg() returns the next message of the
\* response subscriber, and call returns it
ClientReturn(c) ==
    /\ cli_pc[c] = "waiting"
    /\ HasDelivery(response_sub[c])
    /\ LET got == get_msg(response_sub[c], now)
       IN  /\ response_sub' = [response_sub EXCEPT ![c] = got.sub]
           /\ call_ret' = [call_ret EXCEPT ![c] = got.msg]
    /\ cli_pc' = [cli_pc EXCEPT ![c] = "idle"]
    /\ UNCHANGED <<now, kv, log, srv_vars, request_pub, cancel_pub, call_req, budget>>
    /\ UNCHANGED topic_vars
    /\ UNCHANGED node_vars

\* the caller of call() gives up (asyncio.wait_for around rpc_call): call is
\* cancelled at its await, before get_msg() has read a response
ClientAbandon(c) ==
    /\ cli_pc[c] = "waiting"
    /\ budget.abandons > 0
    /\ budget' = [budget EXCEPT !.abandons = @ - 1]
    /\ cli_pc' = [cli_pc EXCEPT ![c] = "idle"]
    /\ UNCHANGED <<now, kv, log, srv_vars, request_pub, cancel_pub, response_sub,
                   call_req, call_ret>>
    /\ UNCHANGED topic_vars
    /\ UNCHANGED node_vars

\* RPCClient.cancel_running_procedure
ClientCancel(c) ==
    /\ budget.cancels > 0
    /\ budget' = [budget EXCEPT !.cancels = @ - 1]
    /\ LET out == publish(cancel_pub[c], RPCCancel, now)
       IN  /\ ~out.raised
           /\ BrokerPublish(cancel_pub[c].topic_spec.channel, out.data)
           /\ cancel_pub' = [cancel_pub EXCEPT ![c] = out.pub]
    /\ UNCHANGED <<now, kv, srv_vars, cli_pc, request_pub, response_sub, call_req,
                   call_ret>>
    /\ UNCHANGED topic_vars
    /\ UNCHANGED node_vars

----------------------------------------------------------------------------
(* The system *)

\* the broker empty, the clients of the deployment constructed, its servers
\* not yet
DeployedIpc(servers, clients) ==
    /\ now = 0
    /\ kv = [k \in {status_key} |-> NoneRaw]
    /\ log = [ch \in Channels |-> <<>>]
    /\ node_id = [s \in Servers |-> NoneId]
    /\ srv_pc = [s \in Servers |-> IF s \in servers THEN "new" ELSE "absent"]
    /\ raw_status = [s \in Servers |-> NoneRaw]
    /\ cur_rpc_call = [s \in Servers |-> NoneMsg]
    /\ request_sub = [s \in Servers |-> NoSub]
    /\ cancel_sub = [s \in Servers |-> NoSub]
    /\ cli_pc = [c \in Clients |-> IF c \in clients THEN "idle" ELSE "absent"]
    /\ request_pub = [c \in Clients |-> Publisher(c, request_topic_spec)]
    /\ cancel_pub = [c \in Clients |-> Publisher(c, cancel_topic_spec)]
    /\ response_sub = [c \in Clients |-> Subscriber(get_response_topic_spec(c), FALSE)]
    /\ call_req = [c \in Clients |-> NoneMsg]
    /\ call_ret = [c \in Clients |-> NoneMsg]
    /\ topic_pub = [p \in Nodes |-> Publisher(p, debug_topic_spec)]
    /\ publish_ret = NoneMsg
    /\ topic_sub = NoSub
    /\ listen_pc = "absent"
    /\ callback_msgs = <<>>
    /\ callbacks_running = 0

\* the same, with no BaseNode running and no RPCSpec under examination
Deployed(servers, clients) ==
    /\ DeployedIpc(servers, clients)
    /\ node = NoneMsg
    /\ derived = NoneMsg

\* One server and two clients, which call, cancel and abandon calls
Init ==
    /\ Deployed({"s1"}, {"c1", "c2"})
    /\ budget = [calls |-> MaxCalls, cancels |-> MaxCancels,
                 abandons |-> MaxAbandons, closes |-> MaxCloses]

Next ==
    \/ \E s \in Servers : ServerInit(s)
    \/ \E s \in Servers : ServerInitStatus(s)
    \/ \E s \in Servers : ServerInitSubscribe(s)
    \/ \E s \in Servers : ServerHandleRequest(s)
    \/ \E s \in Servers : ServerExecute(s)
    \/ \E s \in Servers : ProcedureReturns(s)
    \/ \E s \in Servers : ProcedureRaises(s)
    \/ \E s \in Servers : ServerHandleCancel(s)
    \/ \E s \in Servers : ServerPublishResponse(s)
    \/ \E s \in Servers : ServerClearCall(s)
    \/ \E s \in Servers : ServerFinishRequest(s)
    \/ \E s \in Servers : ServerClose(s)
    \/ \E c \in Clients : ClientCall(c)
    \/ \E c \in Clients : ClientReturn(c)
    \/ \E c \in Clients : ClientAbandon(c)
    \/ \E c \in Clients : ClientCancel(c)

Spec == Init /\ [][Next]_vars

\* Two servers for the one RPC, the second given the NodeID of the first or
\* another one, and one client that calls
InitDup ==
    /\ Deployed({"s1", "s2"}, {"c1"})
    /\ budget = [calls |-> DupMaxCalls, cancels |-> 0, abandons |-> 0,
                 closes |-> DupMaxCloses]

NextDup ==
    \/ \E s \in Servers : ServerInit(s)
    \/ \E s \in Servers : ServerInitStatus(s)
    \/ \E s \in Servers : ServerInitSubscribe(s)
    \/ \E s \in Servers : ServerHandleRequest(s)
    \/ \E s \in Servers : ServerExecute(s)
    \/ \E s \in Servers : ProcedureReturns(s)
    \/ \E s \in Servers : ProcedureRaises(s)
    \/ \E s \in Servers : ServerPublishResponse(s)
    \/ \E s \in Servers : ServerClearCall(s)
    \/ \E s \in Servers : ServerFinishRequest(s)
    \/ \E s \in Servers : ServerClose(s)
    \/ \E c \in Clients : ClientCall(c)
    \/ \E c \in Clients : ClientReturn(c)

SpecDup == InitDup /\ [][NextDup]_vars

\* One server that is never closed and two clients that wait for their
\* responses.  The event loop of the server runs every coroutine that is
\* ready, and the procedure function ends.
InitServe ==
    /\ Deployed({"s1"}, {"c1", "c2"})
    /\ budget = [calls |-> ServeMaxCalls, cancels |-> ServeMaxCancels,
                 abandons |-> 0, closes |-> 0]

NextServe ==
    \/ \E s \in Servers : ServerInit(s)
    \/ \E s \in Servers : ServerInitStatus(s)
    \/ \E s \in Servers : ServerInitSubscribe(s)
    \/ \E s \in Servers : ServerHandleRequest(s)
    \/ \E s \in Servers : ServerExecute(s)
    \/ \E s \in Servers : ProcedureReturns(s)
    \/ \E s \in Servers : ProcedureRaises(s)
    \/ \E s \in Servers : ServerHandleCancel(s)
    \/ \E s \in Servers : ServerPublishResponse(s)
    \/ \E s \in Servers : ServerClearCall(s)
    \/ \E s \in Servers : ServerFinishRequest(s)
    \/ \E c \in Clients : ClientCall(c)
    \/ \E c \in Clients : ClientReturn(c)
    \/ \E c \in Clients : ClientCancel(c)

\* a step of the server's event loop: its constructor, its request loop or its
\* cancel loop
ServerStep(s) ==
    \/ ServerInit(s)
    \/ ServerInitStatus(s)
    \/ ServerInitSubscribe(s)
    \/ ServerHandleRequest(s)
    \/ ServerExecute(s)
    \/ ServerHandleCancel(s)
    \/ ServerPublishResponse(s)
    \/ ServerClearCall(s)
    \/ ServerFinishRequest(s)

FairServe ==
    \A s \in Servers :
        /\ WF_vars(ServerStep(s))
        /\ WF_vars(ProcedureReturns(s) \/ ProcedureRaises(s))

SpecServe == InitServe /\ [][NextServe]_vars /\ FairServe

\* One server and two clients that each await a call, one of which cancels,
\* while time passes between the steps of the server's two loops
InitRace ==
    /\ Deployed({"s1"}, {"c1", "c2"})
    /\ budget = [calls |-> RaceMaxCalls, cancels |-> RaceMaxCancels,
                 abandons |-> 0, closes |-> 0]

NextRace ==
    \/ ServerInit("s1")
    \/ ServerInitStatus("s1")
    \/ ServerInitSubscribe("s1")
    \/ ServerHandleRequest("s1")
    \/ ServerExecute("s1")
    \/ ProcedureReturns("s1")
    \/ ServerHandleCancel("s1")
    \/ ServerPublishResponse("s1")
    \/ ServerClearCall("s1")
    \/ ServerFinishRequest("s1")
    \/ \E c \in Clients : ClientCall(c)
    \/ ClientCancel("c1")
    \/ Tick

SpecRace == InitRace /\ [][NextRace]_vars

\* Two nodes that publish on the topic and a node that subscribes to it, with
\* a broker that delivers what it accepted
InitTopic ==
    /\ Deployed({}, {})
    /\ budget = [publishes |-> TopicMaxPublishes, drops |-> 0, raws |-> 0]

NextTopic ==
    \/ \E p \in Nodes : NodePublish(p)
    \/ NodeSubscribe
    \/ ListenGetMsg
    \/ CallbackDone

SpecTopic == InitTopic /\ [][NextTopic]_vars

\* One node that publishes and a node that subscribes, with a broker that may
\* lose a delivery
InitLossy ==
    /\ Deployed({}, {})
    /\ budget = [publishes |-> LossyMaxPublishes, drops |-> LossyMaxDrops, raws |-> 0]

NextLossy ==
    \/ NodePublish("debug0")
    \/ NodeSubscribe
    \/ ListenGetMsg
    \/ CallbackDone
    \/ BrokerDrop

SpecLossy == InitLossy /\ [][NextLossy]_vars

\* Two nodes that publish on the topic and a node that subscribes to it, with
\* a broker that may lose a delivery
InitMix ==
    /\ Deployed({}, {})
    /\ budget = [publishes |-> MixMaxPublishes, drops |-> MixMaxDrops, raws |-> 0]

NextMix ==
    \/ \E p \in Nodes : NodePublish(p)
    \/ NodeSubscribe
    \/ ListenGetMsg
    \/ CallbackDone
    \/ BrokerDrop

SpecMix == InitMix /\ [][NextMix]_vars

\* One node that publishes and a node that subscribes, with a process that
\* writes texts lacking transport fields to the channel
InitRaw ==
    /\ Deployed({}, {})
    /\ budget = [publishes |-> RawMaxPublishes, drops |-> 0, raws |-> RawMaxRaws]

NextRaw ==
    \/ NodePublish("debug0")
    \/ NodeSubscribe
    \/ ListenGetMsg
    \/ CallbackDone
    \/ RawPublish

SpecRaw == InitRaw /\ [][NextRaw]_vars

----------------------------------------------------------------------------
(* Properties *)

RequestLog == log[request_topic_spec.channel]
CancelLog == log[cancel_topic_spec.channel]
ResponseLog(c) == log[get_response_topic_spec(c).channel]

\* what the publisher of node id has published on a channel, in order
SentBy(channel, id) == SelectSeq(log[channel], LAMBDA m : m.sender_id = id)

\* the server's constructor has returned
Constructed(s) ==
    srv_pc[s] \in {"listen", "req_got", "await_task", "published", "fin_got", "raised"}

\* the server's status check has passed and its status has been written
PastCheck(s) == srv_pc[s] \in {"init_set", "listen", "await_task", "published"}

\* how many responses to the i-th request stand on its sender's response channel
ResponseCount(i) ==
    LET responses == ResponseLog(RequestLog[i].sender_id)
    IN  Cardinality({j \in 1..Len(responses) : responses[j].request_msg = RequestLog[i]})

\* C1: the k-th message (from 0) a Publisher instance publishes carries
\* pub_counter = k.  The request and cancel publishers of a client are one
\* instance each; every response is published by a publisher of its own, so
\* it is that publisher's message 0.
C1_PubCounterCountsPublishes ==
    /\ \A c \in Clients :
          /\ Len(SentBy(request_topic_spec.channel, c)) = request_pub[c].pub_counter
          /\ Len(SentBy(cancel_topic_spec.channel, c)) = cancel_pub[c].pub_counter
          /\ \A ch \in {request_topic_spec.channel, cancel_topic_spec.channel} :
                \A k \in 1..Len(SentBy(ch, c)) : SentBy(ch, c)[k].pub_counter = k - 1
    /\ \A c \in Clients :
          \A j \in 1..Len(ResponseLog(c)) : ResponseLog(c)[j].pub_counter = 0

C1_Witness ==
    /\ Len(SentBy(request_topic_spec.channel, "c1")) = 2
    /\ Len(ResponseLog("c1")) = 2

\* C2: every request gets exactly one response on its sender's response
\* channel: never two, and one as soon as a server that took the request is
\* back waiting for the next.
C2_ExactlyOneResponse ==
    \A i \in 1..Len(RequestLog) :
        /\ ResponseCount(i) <= 1
        /\ \A s \in Servers :
              ( /\ srv_pc[s] = "listen"
                /\ request_sub[s].start < i
                /\ request_sub[s].cursor >= i ) => ResponseCount(i) >= 1

\* C3: a response that execute() builds is exactly one of cancelled, errored
\* and completed; a return sets only return_val, a cancellation only
\* cancelled, any other exception only traceback_str.
ExactlyOneOutcome(resp) ==
    Cardinality({flag \in {"cancelled", "errored", "completed"} :
                    \/ flag = "cancelled" /\ resp.cancelled = "True"
                    \/ flag = "errored" /\ errored(resp)
                    \/ flag = "completed" /\ completed(resp)}) = 1

C3_ExactlyOneOutcome ==
    /\ \A c \in Clients :
          \A j \in 1..Len(ResponseLog(c)) : ExactlyOneOutcome(ResponseLog(c)[j])
    /\ \A s \in Servers :
          (srv_pc[s] = "await_task" /\ cur_rpc_call[s].task # "running") =>
             LET call == cur_rpc_call[s]
                 resp == execute(call, now)
             IN  /\ ExactlyOneOutcome(resp)
                 /\ call.task = "returned" =>
                       /\ resp.return_val = call.result
                       /\ resp.cancelled = "None" /\ resp.traceback_str = NoneStr
                 /\ call.task = "cancelled" =>
                       /\ resp.cancelled = "True"
                       /\ resp.return_val = "None" /\ resp.traceback_str = NoneStr
                 /\ call.task = "raised" =>
                       /\ resp.traceback_str # NoneStr
                       /\ resp.return_val = "None" /\ resp.cancelled = "None"

C3_Witness ==
    \E c \in Clients : \E i, j \in 1..Len(ResponseLog(c)) :
        /\ ResponseLog(c)[i].cancelled = "True"
        /\ errored(ResponseLog(c)[j])

\* the status the key holds, parsed as any reader of the key parses it
StoredStatus == ParseRPCStatus(kv[status_key])

\* the raw status the server last read names another server
ReadForeign(s) ==
    /\ raw_status[s] # NoneRaw
    /\ ParseRPCStatus(raw_status[s]).server_id # node_id[s]

C5_RejectedConstructorChangesNothing ==
    /\ [][\A s \in Servers :
            (srv_pc[s] = "init_got" /\ ReadForeign(s) /\ srv_pc'[s] # "init_got") =>
                /\ srv_pc'[s] = "init_raised"
                /\ kv' = kv
                /\ log' = log
                /\ request_sub'[s] = NoSub /\ cancel_sub'[s] = NoSub]_vars
    /\ [](\A s \in Servers :
            srv_pc[s] = "init_raised" =>
                /\ ReadForeign(s)
                /\ request_sub[s] = NoSub /\ cancel_sub[s] = NoSub)

C5_Witness ==
    \E s \in Servers :
        /\ srv_pc[s] = "init_raised"
        /\ kv[status_key] # NoneRaw
        /\ StoredStatus.server_id # node_id[s]

\* C6: a constructor that finds the status of a server under its own NodeID is
\* rejected like one that finds a foreign status: a constructor goes on to
\* write its status only when the key it read was unset, so it never
\* overwrites the status of the server that runs.
C6_SameIdDuplicateRejected ==
    \A t \in Servers : srv_pc[t] = "init_set" => raw_status[t] = NoneRaw

\* the server is between the status write before execute() and the status
\* write after the response
Processing(s) == srv_pc[s] \in {"await_task", "published", "fin_got"}

\* C7: while the key names a live server, its cur_request is null exactly
\* when the server processes no request, and is the request while the
\* procedure runs and when the response is published.
C7_StatusTellsProcessing ==
    \A s \in Servers :
        ( /\ srv_pc[s] \in {"listen", "await_task", "published", "fin_got"}
          /\ ~Closed(s)
          /\ kv[status_key] # NoneRaw
          /\ StoredStatus.server_id = node_id[s] ) =>
            /\ ready(StoredStatus) <=> ~Processing(s)
            /\ srv_pc[s] \in {"await_task", "published"} =>
                  kv[status_key].cur_request = Json(cur_rpc_call[s].request_msg)

\* C8: a response stands only on the response channel of the client that sent
\* its request, so a client's call never returns a response to a request of
\* another client.
C8_ResponsesOnlyToRequester ==
    \A c \in Clients :
        /\ \A j \in 1..Len(ResponseLog(c)) : ResponseLog(c)[j].request_msg.sender_id = c
        /\ call_ret[c] # NoneMsg => call_ret[c].request_msg.sender_id = c

C8_Witness ==
    /\ call_ret["c1"] # NoneMsg
    /\ call_ret["c2"] # NoneMsg

\* C9: what a call returns is the response to the request that call
\* published.
C9_CallReturnsItsOwnResponse ==
    \A c \in Clients :
        call_ret[c] # NoneMsg =>
            /\ call_ret[c].request_msg.sender_id = call_req[c].sender_id
            /\ call_ret[c].request_msg.pub_counter = call_req[c].pub_counter

\* C10: a cancel handled while the procedure runs cancels its task, and the
\* server then leaves the await only by publishing, for that request, a
\* response with cancelled true and neither traceback nor return value; that
\* step is always open to it.
C10_CancelledCallStillAnswered ==
    /\ [][\A s \in Servers :
            ( /\ srv_pc[s] = "await_task"
              /\ cur_rpc_call[s].task = "running"
              /\ cancel_sub'[s].cursor > cancel_sub[s].cursor ) =>
                cur_rpc_call'[s].task = "cancelled"]_vars
    /\ [][\A s \in Servers :
            ( /\ srv_pc[s] = "await_task"
              /\ cur_rpc_call[s].task = "cancelled"
              /\ <<srv_pc[s], cur_rpc_call[s]>>' # <<srv_pc[s], cur_rpc_call[s]>> ) =>
                LET channel ==
                        get_response_topic_spec(cur_rpc_call[s].request_msg.sender_id).channel
                    sent == log'[channel][Len(log'[channel])]
                IN  /\ srv_pc'[s] = "published"
                    /\ Len(log'[channel]) = Len(log[channel]) + 1
                    /\ sent.request_msg = Json(cur_rpc_call[s].request_msg)
                    /\ sent.cancelled = "True"
                    /\ sent.traceback_str = NoneStr
                    /\ sent.return_val = "None"]_vars
    /\ [](\A s \in Servers :
            (srv_pc[s] = "await_task" /\ cur_rpc_call[s].task = "cancelled") =>
                ENABLED ServerPublishResponse(s))

C10_Witness ==
    \E c \in Clients : \E j \in 1..Len(ResponseLog(c)) :
        /\ ResponseLog(c)[j].cancelled = "True"
        /\ call_ret[c] # NoneMsg
        /\ call_ret[c].cancelled = "True"

\* how many requests the server's request loop has taken, and how many
\* responses stand on the response channels
Taken(s) == request_sub[s].cursor - request_sub[s].start
Responses == Len(ResponseLog("c1")) + Len(ResponseLog("c2"))

\* the server's cancel loop takes a cancel in this step
CancelHandled(s) ==
    /\ srv_pc[s] \in {"listen", "await_task", "raised"}
    /\ cancel_sub'[s].cursor > cancel_sub[s].cursor

TaskIs(call, state) == call # NoneMsg /\ call.task = state

\* C11: a cancel handled while no procedure runs changes nothing but the
\* cancel subscriber: the current call, the status key, the channels and the
\* request loop stay as they are; and a task is cancelled only in a step that
\* handles a cancel while that task runs, so a cancel handled earlier never
\* cancels a request that arrives later.
C11_IdleCancelIsNoOp ==
    /\ [][\A s \in Servers :
            (CancelHandled(s) /\ ~TaskIs(cur_rpc_call[s], "running")) =>
                /\ cur_rpc_call' = cur_rpc_call
                /\ kv' = kv
                /\ log' = log
                /\ srv_pc' = srv_pc
                /\ request_sub' = request_sub]_vars
    /\ [][\A s \in Servers :
            ( /\ TaskIs(cur_rpc_call'[s], "cancelled")
              /\ ~TaskIs(cur_rpc_call[s], "cancelled") ) =>
                /\ TaskIs(cur_rpc_call[s], "running")
                /\ CancelHandled(s)]_vars

\* the only cancel was handled before the first request was taken, and that
\* request's procedure runs
C11_Witness ==
    /\ srv_pc["s1"] = "await_task"
    /\ TaskIs(cur_rpc_call["s1"], "running")
    /\ Taken("s1") = 1
    /\ cancel_sub["s1"].cursor - cancel_sub["s1"].start = 1

\* C12: a step that handles a cancel leaves the request channel and the
\* request subscriber as they are, and the server is always led, past the
\* cancelled call's response, to where it waits for the next request and
\* every request its subscriber was subscribed for has its response.
C12_QueuedRequestsSurviveCancel ==
    /\ [][\A s \in Servers :
            CancelHandled(s) => request_sub' = request_sub /\ RequestLog' = RequestLog]_vars
    /\ \A s \in {"s1"} :
          Constructed(s) ~>
              ( /\ srv_pc[s] = "listen"
                /\ \A i \in (request_sub[s].start + 1)..Len(RequestLog) :
                      ResponseCount(i) >= 1 )

\* the first call was cancelled, and the request queued behind it was
\* answered after it with a response that is not cancelled
C12_Witness ==
    /\ Len(RequestLog) = 2 /\ Constructed("s1") /\ Taken("s1") = 2
    /\ RequestLog[1].sender_id # RequestLog[2].sender_id
    /\ LET first == ResponseLog(RequestLog[1].sender_id)
           second == ResponseLog(RequestLog[2].sender_id)
       IN  /\ Len(first) = 1 /\ first[1].cancelled = "True"
           /\ Len(second) = 1 /\ completed(second[1])

\* C13: the request loop takes a request only while it waits in listen()
\* with no current call, every request taken before answered and the status
\* reset; a procedure starts only when all requests taken before it have
\* their response and the status read ready before this request; and the
\* requests taken are never more than one ahead of the responses.
C13_OneRequestAtATime ==
    /\ [][\A s \in Servers :
            (Constructed(s) /\ request_sub'[s].cursor > request_sub[s].cursor) =>
                /\ srv_pc[s] = "listen"
                /\ cur_rpc_call[s] = NoneMsg
                /\ Responses = Taken(s)
                /\ kv[status_key] # NoneRaw /\ ready(StoredStatus)]_vars
    /\ [][\A s \in Servers :
            ( /\ TaskIs(cur_rpc_call'[s], "running")
              /\ ~TaskIs(cur_rpc_call[s], "running") ) =>
                /\ srv_pc[s] = "req_got"
                /\ Responses = Taken(s) - 1
                /\ ready(StoredStatus)]_vars
    /\ [](\A s \in Servers :
            Constructed(s) =>
                /\ Taken(s) - Responses \in {0, 1}
                /\ Taken(s) - Responses = 1 <=> srv_pc[s] \in {"req_got", "await_task"})

\* a second request waits while the procedure of the first runs
C13_Witness ==
    /\ srv_pc["s1"] = "await_task"
    /\ TaskIs(cur_rpc_call["s1"], "running")
    /\ HasDelivery(request_sub["s1"])

\* C14: when the procedure raises, the request loop leaves the await only by
\* publishing, for that request, a response with a traceback, not cancelled
\* and without return value; no exception ends the request loop; and the
\* server is led back to waiting for the next request with cur_request null.
C14_ProcedureErrorIsAnswered ==
    /\ [][\A s \in Servers :
            ( /\ srv_pc[s] = "await_task"
              /\ cur_rpc_call[s].task = "raised"
              /\ srv_pc'[s] # "await_task" ) =>
                LET channel ==
                        get_response_topic_spec(cur_rpc_call[s].request_msg.sender_id).channel
                    sent == log'[channel][Len(log'[channel])]
                IN  /\ srv_pc'[s] = "published"
                    /\ Len(log'[channel]) = Len(log[channel]) + 1
                    /\ sent.request_msg = Json(cur_rpc_call[s].request_msg)
                    /\ sent.traceback_str # NoneStr
                    /\ sent.cancelled # "True"
                    /\ sent.return_val = "None"]_vars
    /\ [](\A s \in Servers : srv_pc[s] # "raised")
    /\ \A s \in {"s1"} :
          (srv_pc[s] = "await_task" /\ cur_rpc_call[s].task = "raised")
              ~> (srv_pc[s] = "listen" /\ ready(StoredStatus))

\* the first request failed and the request after it was completed
C14_Witness ==
    /\ Len(RequestLog) = 2 /\ Constructed("s1") /\ Taken("s1") = 2
    /\ RequestLog[1].sender_id # RequestLog[2].sender_id
    /\ LET first == ResponseLog(RequestLog[1].sender_id)
           second == ResponseLog(RequestLog[2].sender_id)
       IN  /\ Len(first) = 1 /\ errored(first[1])
           /\ Len(second) = 1 /\ completed(second[1])

\* time passes in steps shorter than the latency limits of the RPC topics
FineTick ==
    /\ now + FineTickStep <= FineClockEnd
    /\ now' = now + FineTickStep
    /\ UNCHANGED <<kv, log, srv_vars, cli_vars, topic_vars, node_vars, budget>>

\* An idle server whose cancel subscriber receives the cancels of a client,
\* while time passes between publishing and receiving
InitLatency ==
    /\ Deployed({"s1"}, {"c1"})
    /\ budget = [calls |-> 0, cancels |-> LatMaxCancels, abandons |-> 0, closes |-> 0]

NextLatency ==
    \/ ServerInit("s1")
    \/ ServerInitStatus("s1")
    \/ ServerInitSubscribe("s1")
    \/ ClientCancel("c1")
    \/ ServerHandleCancel("s1")
    \/ FineTick

SpecLatency == InitLatency /\ [][NextLatency]_vars

\* One node that publishes and a node that subscribes, while time passes
\* between publishing and receiving
InitClock ==
    /\ Deployed({}, {})
    /\ budget = [publishes |-> ClockMaxPublishes, drops |-> 0, raws |-> 0]

NextClock ==
    \/ NodePublish("debug0")
    \/ NodeSubscribe
    \/ ListenGetMsg
    \/ CallbackDone
    \/ Tick

SpecClock == InitClock /\ [][NextClock]_vars

\* Two RPCSpec objects, made from any two base channels, whose addresses are
\* read for one requester
InitDerive ==
    /\ DeployedIpc({}, {})
    /\ node = NoneMsg
    /\ budget = [publishes |-> 0, drops |-> 0, raws |-> 0]
    /\ \E b1 \in BaseChannels, b2 \in BaseChannels, r \in RequesterNames :
          derived = [specs |-> <<RPCSpec(b1, "DebugRequest"), RPCSpec(b2, "DebugRequest")>>,
                     requester |-> r,
                     out |-> <<NoAddresses, NoAddresses>>]

NextDerive ==
    \/ \E i \in {1, 2} : ReadRequestChannel(i)
    \/ \E i \in {1, 2} : ReadCancelChannel(i)
    \/ \E i \in {1, 2} : ReadStatusKey(i)
    \/ \E i \in {1, 2} : ReadResponseChannel(i)

SpecDerive == InitDerive /\ [][NextDerive]_vars

\* Two clients, each of any RPC and under any name, that derive their
\* response channels
InitPairs ==
    /\ DeployedIpc({}, {})
    /\ node = NoneMsg
    /\ budget = [publishes |-> 0, drops |-> 0, raws |-> 0]
    /\ \E b1 \in BaseChannels, b2 \in BaseChannels :
          \E r1 \in RequesterNames, r2 \in RequesterNames :
              derived = [specs |-> <<RPCSpec(b1, "DebugRequest"),
                                     RPCSpec(b2, "DebugRequest")>>,
                         requesters |-> <<r1, r2>>,
                         out |-> <<NoneStr, NoneStr>>]

NextPairs ==
    \E i \in {1, 2} : ClientResponseChannel(i)

SpecPairs == InitPairs /\ [][NextPairs]_vars

\* A node that constructs a subscriber with its callback and an RPC server
\* with its procedure function, whatever it was given for them, and closes
\* the subscriber at some time, while two nodes publish on the topic.  The
\* event loop runs listen() whenever it can go on.
InitSub ==
    /\ DeployedIpc({"s1"}, {})
    /\ derived = NoneMsg
    /\ budget = [publishes |-> SubMaxPublishes, drops |-> 0, raws |-> 0]
    /\ \E callback \in Callables, proc_func \in Callables :
          node = BaseNode(callback, proc_func)

NextSub ==
    \/ \E p \in Nodes : NodePublish(p)
    \/ SubscriberInit
    \/ ListenGetMsg
    \/ CallbackDone
    \/ SubscriberClose
    \/ ListenPollClosed
    \/ ServerInitRejected("s1")
    \/ ServerInitAccepted("s1")
    \/ ServerInitStatus("s1")
    \/ ServerInitSubscribe("s1")

FairSub == WF_vars(ListenGetMsg \/ CallbackDone \/ ListenPollClosed)

SpecSub == InitSub /\ [][NextSub]_vars /\ FairSub

\* A node with an asynchronous and a blocking task function, with or without
\* an RPC server, that is run; a client calls the server.  The event loop of
\* the node runs every task that can go on, and procedure functions end.
InitRun ==
    /\ \/ DeployedIpc({"s1"}, {"c1"})
       \/ DeployedIpc({}, {})
    /\ node = NodeWithTasks
    /\ derived = NoneMsg
    /\ budget = [calls |-> RunMaxCalls, cancels |-> 0, abandons |-> 0, closes |-> 0,
                 stops |-> RunMaxStops]

NextRun ==
    \/ ServerInit("s1")
    \/ ServerInitStatus("s1")
    \/ ServerInitSubscribe("s1")
    \/ RunStart
    \/ ServeHandleRequest("s1")
    \/ ServerExecute("s1")
    \/ ProcedureReturns("s1")
    \/ ProcedureRaises("s1")
    \/ ServerPublishResponse("s1")
    \/ ServerClearCall("s1")
    \/ ServerFinishRequest("s1")
    \/ ClientCall("c1")
    \/ ClientReturn("c1")
    \/ UserTaskReturns
    \/ UserTaskRaises
    \/ BlockingReturns
    \/ NodeStop
    \/ RunGatherEnds
    \/ RunEnds

FairRun ==
    /\ WF_vars(\/ ServeHandleRequest("s1") \/ ServerExecute("s1")
               \/ ServerPublishResponse("s1") \/ ServerClearCall("s1")
               \/ ServerFinishRequest("s1") \/ RunGatherEnds \/ RunEnds)
    /\ WF_vars(ProcedureReturns("s1") \/ ProcedureRaises("s1"))

SpecRun == InitRun /\ [][NextRun]_vars /\ FairRun

\* add_subscribers, before run()
AddSubscriber ==
    /\ node.run_pc = "new"
    /\ SubscriberInit

\* the constructor of another server for the RPC, called once the node has
\* stopped
LaterServerInit(s) ==
    /\ node.stops > 0
    /\ ServerInit(s)

\* A node with an RPC server, a subscriber and a task function, which runs
\* and stops, and a second server for the same RPC constructed afterwards
InitStop ==
    /\ DeployedIpc({"s1", "s2"}, {"c1"})
    /\ node = NodeWithTasks
    /\ derived = NoneMsg
    /\ budget = [calls |-> StopMaxCalls, cancels |-> 0, abandons |-> 0, closes |-> 0,
                 stops |-> StopMaxStops]

NextStop ==
    \/ ServerInit("s1")
    \/ ServerInitStatus("s1")
    \/ ServerInitSubscribe("s1")
    \/ AddSubscriber
    \/ RunStart
    \/ ServeHandleRequest("s1")
    \/ ServerExecute("s1")
    \/ ProcedureReturns("s1")
    \/ ServerPublishResponse("s1")
    \/ ServerClearCall("s1")
    \/ ServerFinishRequest("s1")
    \/ ClientCall("c1")
    \/ UserTaskReturns
    \/ UserTaskRaises
    \/ NodeStop
    \/ RunGatherEnds
    \/ RunEnds
    \/ LaterServerInit("s2")
    \/ ServerInitStatus("s2")
    \/ ServerInitSubscribe("s2")

SpecStop == InitStop /\ [][NextStop]_vars

\* what node p's publisher has put on the topic's channel, as the broker
\* holds it, and what the callback of the subscriber got from p
Published(p) == SentBy(debug_topic_spec.channel, p)
Received(p) == SelectSeq(callback_msgs, LAMBDA m : m.sender_id = p)

\* NodePublish has just run, and publish() returned without raising
PublishAccepted == budget' # budget /\ publish_ret' # NoneMsg /\ ~publish_ret'.raised
PublishRejected == budget' # budget /\ publish_ret' # NoneMsg /\ publish_ret'.raised

\* C15: publish(msg) raises exactly when msg is not of the topic's class, and
\* then changes nothing: no channel, no publisher, and msg is as it was; so
\* the counters of the messages a publisher has on the channel stay 0, 1,
\* 2, ... across rejected publishes.
C15_RejectedPublishHasNoEffect ==
    /\ [][PublishRejected =>
            /\ log' = log
            /\ topic_pub' = topic_pub
            /\ publish_ret'.msg = publish_ret'.arg]_vars
    /\ [](publish_ret # NoneMsg =>
            (publish_ret.raised <=> publish_ret.arg.cls # debug_topic_spec.msg_cls))
    /\ [](\A p \in Nodes :
            /\ Len(Published(p)) = topic_pub[p].pub_counter
            /\ \A k \in 1..Len(Published(p)) : Published(p)[k].pub_counter = k - 1)

\* a node's publish was rejected after one of its messages was accepted, and
\* its counter still stands at 1
C15_Witness ==
    /\ publish_ret # NoneMsg
    /\ publish_ret.raised
    /\ Len(Published(publish_ret.node)) = 1
    /\ topic_pub[publish_ret.node].pub_counter = 1

\* C16: every text on the channel carries a sender_id, a pub_dt and a
\* pub_counter, and the text an accepted publish() hands over carries the
\* publishing node's id, the time of the call and the publisher's counter,
\* whatever the message object carried before.
C16_PublishedFieldsAreSet ==
    /\ [](\A k \in 1..Len(log[debug_topic_spec.channel]) :
            LET data == log[debug_topic_spec.channel][k]
            IN  /\ data.sender_id # NoneId
                /\ data.pub_dt # NoneInt
                /\ data.pub_counter # NoneInt)
    /\ [][PublishAccepted =>
            LET channel == debug_topic_spec.channel
                data == log'[channel][Len(log'[channel])]
            IN  /\ Len(log'[channel]) = Len(log[channel]) + 1
                /\ data.sender_id = publish_ret'.node
                /\ data.pub_dt = now
                /\ data.pub_counter = topic_pub[publish_ret'.node].pub_counter
                /\ data.content = publish_ret'.arg.content]_vars

\* a message that carried another sender, time and counter was published
C16_Witness ==
    /\ publish_ret # NoneMsg
    /\ ~publish_ret.raised
    /\ publish_ret.arg.sender_id \notin {NoneId, publish_ret.node}
    /\ publish_ret.arg.pub_counter \notin {NoneInt, publish_ret.msg.pub_counter}

\* C17: for a publisher that had published nothing when the subscriber
\* subscribed, the messages the subscriber hands to its callback are the
\* first messages of the publisher, in publish order, with pub_counter 0, 1,
\* 2, ..., and none of them is recorded as unexpected.
C17_InOrderDelivery ==
    \A p \in Nodes :
        ( /\ listen_pc # "absent"
          /\ \A k \in 1..topic_sub.start :
                log[debug_topic_spec.channel][k].sender_id # p ) =>
            /\ Len(Received(p)) <= Len(Published(p))
            /\ \A k \in 1..Len(Received(p)) :
                  /\ Received(p)[k].pub_counter = k - 1
                  /\ Received(p)[k] = ParseRaw(debug_topic_spec.msg_cls, Published(p)[k])
            /\ \A k \in 1..Len(topic_sub.unexpected_msgs) :
                  topic_sub.unexpected_msgs[k].sender_id # p

\* the subscriber got two messages of one publisher and one of the other
C17_Witness ==
    /\ listen_pc # "absent"
    /\ topic_sub.start = 0
    /\ Len(Received("debug0")) = 2
    /\ Len(Received("debug1")) = 1

\* the messages the ordering check looks at: those with sender and counter
Ordered ==
    SelectSeq(callback_msgs, LAMBDA m : m.sender_id # NoneId /\ m.pub_counter # NoneInt)

\* the k-th of them does not continue the one before it from its sender
IsOffender(k) ==
    LET before == {j \in 1..(k - 1) : Ordered[j].sender_id = Ordered[k].sender_id}
        last == CHOOSE j \in before : \A other \in before : other <= j
    IN  before # {} /\ Ordered[last].pub_counter + 1 # Ordered[k].pub_counter

RECURSIVE Offenders(_)
Offenders(k) ==
    IF k = 0 THEN <<>>
    ELSE IF IsOffender(k) THEN Append(Offenders(k - 1), Ordered[k])
    ELSE Offenders(k - 1)

\* C18: unexpected_msgs holds exactly the messages that do not continue
\* their sender's previous message, once each: a message whose counter is not
\* the stored counter + 1 is added, the stored counter becomes its counter,
\* and the messages that follow it in sequence are not added.
C18_OneGapCountsOnce ==
    listen_pc # "absent" =>
        /\ topic_sub.unexpected_msgs = Offenders(Len(Ordered))
        /\ \A p \in DOMAIN topic_sub.pub_counters :
              LET from == SelectSeq(Ordered, LAMBDA m : m.sender_id = p)
              IN  /\ from # <<>>
                  /\ topic_sub.pub_counters[p] = from[Len(from)].pub_counter

\* one message was recorded as unexpected, and the subscriber has since got
\* the two messages that follow it from its sender
C18_Witness ==
    /\ listen_pc # "absent"
    /\ Len(topic_sub.unexpected_msgs) = 1
    /\ LET offender == topic_sub.unexpected_msgs[1]
           from == Received(offender.sender_id)
       IN  /\ offender.pub_dt # NoneInt
           /\ Len(from) >= 3
           /\ from[Len(from) - 1].pub_counter = offender.pub_counter + 1
           /\ from[Len(from)].pub_counter = offender.pub_counter + 2

\* C19: never more than one invocation of the subscriber's callback is in
\* progress, and listen() takes a message from the subscription only when
\* no invocation is in progress.
C19_CallbackIsSerial ==
    /\ [](callbacks_running <= 1)
    /\ [][Len(callback_msgs') > Len(callback_msgs) =>
            /\ callbacks_running = 0
            /\ listen_pc = "get_msg"]_vars
    /\ [](listen_pc = "callback" <=> callbacks_running = 1)

\* a message waits in the subscription while the callback runs
C19_Witness ==
    /\ listen_pc = "callback"
    /\ callbacks_running = 1
    /\ HasDelivery(topic_sub)

\* a message that lacks one of the transport fields
Malformed(msg) ==
    msg.pub_dt = NoneInt \/ msg.sender_id = NoneId \/ msg.pub_counter = NoneInt

\* C20: a message that lacks pub_dt, sender_id or pub_counter is skipped: it
\* is not passed to the callback, is not recorded as unexpected, seeds no
\* per-sender counter and adds no latency record, so the subscriber's
\* records are those of the complete messages its callback got.
C20_MalformedMessageSkipped ==
    /\ \A k \in 1..Len(callback_msgs) : ~Malformed(callback_msgs[k])
    /\ listen_pc # "absent" =>
          /\ \A k \in 1..Len(topic_sub.unexpected_msgs) :
                ~Malformed(topic_sub.unexpected_msgs[k])
          /\ Len(topic_sub.latency_records) <= Len(callback_msgs)
          /\ \A p \in DOMAIN topic_sub.pub_counters :
                \E k \in 1..Len(callback_msgs) : callback_msgs[k].sender_id = p

\* C21: the latency issue count changes (a latency warning is emitted) only
\* when the oldest latency record the subscriber holds was received at least
\* LATENCY_WINDOW_S before the message being checked, whatever the latencies.
C21_NoLatencyIssueBeforeWindow ==
    [][(/\ listen_pc # "absent"
        /\ topic_sub'.latency_issue_count # topic_sub.latency_issue_count) =>
            /\ topic_sub.latency_records # <<>>
            /\ now - topic_sub.latency_records[1].msg_rcv_ts >= LATENCY_WINDOW_S]_vars

\* two messages, the last one later than max_single_latency allows, were
\* received within the first second and no issue was counted
C21_Witness ==
    /\ listen_pc # "absent"
    /\ Len(topic_sub.latency_records) = 2
    /\ topic_sub.latency_records[2].msg_latency > topic_sub.topic_spec.max_single_latency
    /\ now - topic_sub.latency_records[1].msg_rcv_ts < LATENCY_WINDOW_S
    /\ topic_sub.latency_issue_count = 0

\* C26: the addresses read from an RPCSpec are "rpc-request-" + base,
\* "rpc-cancel-" + base, "rpc-status-" + base and "rpc-response-" + base +
\* "-" + requester name, and two RPCSpec objects with the same base channel
\* give the same four strings.
C26_AddressDerivation ==
    derived # NoneMsg =>
        /\ \A i \in {1, 2} :
              LET base == derived.specs[i].base_channel
                  out == derived.out[i]
              IN  /\ out.request \in {NoneStr, "rpc-request-" \o base}
                  /\ out.cancel \in {NoneStr, "rpc-cancel-" \o base}
                  /\ out.status \in {NoneStr, "rpc-status-" \o base}
                  /\ out.response \in
                        {NoneStr, "rpc-response-" \o base \o "-" \o derived.requester}
        /\ ( /\ derived.specs[1].base_channel = derived.specs[2].base_channel
             /\ \A i \in {1, 2} : \A f \in DOMAIN NoAddresses : derived.out[i][f] # NoneStr )
             => derived.out[1] = derived.out[2]

\* all four addresses were read from two objects with the same base channel
C26_Witness ==
    /\ derived # NoneMsg
    /\ derived.specs[1].base_channel = derived.specs[2].base_channel
    /\ derived.specs[1].base_channel = "nav-debug"
    /\ \A i \in {1, 2} : \A f \in DOMAIN NoAddresses : derived.out[i][f] # NoneStr

\* C27: once the subscription has been closed, listen() returns.
C27_ListenReturnsAfterClose ==
    (listen_pc \notin {"absent", "init_raised"} /\ topic_sub.state = "closed")
        ~> (listen_pc = "returned")

\* C28: a callback that is a plain function is rejected by
\* Subscriber.__init__ before it subscribes, and a procedure function that
\* is not a coroutine function is rejected by RPCServer.__init__ before the
\* status key is read or written.
C28_SyncCallableRejected ==
    /\ [](node.callback = "function" =>
            /\ listen_pc \in {"absent", "init_raised"}
            /\ topic_sub = NoSub)
    /\ [](node.proc_func # "coroutine function" =>
            /\ srv_pc["s1"] \in {"new", "init_type_raised"}
            /\ raw_status["s1"] = NoneRaw
            /\ kv[status_key] = NoneRaw
            /\ request_sub["s1"] = NoSub
            /\ cancel_sub["s1"] = NoSub)
    /\ [](node.callback # "function" => listen_pc # "init_raised")
    /\ [](node.proc_func = "coroutine function" => srv_pc["s1"] # "init_type_raised")

\* both constructors have raised TypeError, with messages published on the
\* topic meanwhile
C28_Witness ==
    /\ node.callback = "function"
    /\ node.proc_func = "function"
    /\ listen_pc = "init_raised"
    /\ srv_pc["s1"] = "init_type_raised"
    /\ log[debug_topic_spec.channel] # <<>>

\* C30: the first message from a sender the subscriber holds no counter for
\* sets the stored counter to the message's pub_counter, whatever it is, and
\* leaves unexpected_msgs as it was; that is also what the check does with
\* any message of the channel once close() has cleared the counters.
C30_FirstMessageSeedsCounter ==
    /\ [][( /\ Len(callback_msgs') = Len(callback_msgs) + 1
            /\ callback_msgs'[Len(callback_msgs')].sender_id
                    \notin DOMAIN topic_sub.pub_counters ) =>
            LET msg == callback_msgs'[Len(callback_msgs')]
            IN  /\ topic_sub'.pub_counters[msg.sender_id] = msg.pub_counter
                /\ topic_sub'.unexpected_msgs = topic_sub.unexpected_msgs]_vars
    /\ [](topic_sub.state = "closed" =>
            \A k \in 1..Len(log[debug_topic_spec.channel]) :
                LET msg == ParseRaw(debug_topic_spec.msg_cls, log[debug_topic_spec.channel][k])
                    checked == check_msg_ordering(topic_sub, msg)
                IN  /\ topic_sub.pub_counters = <<>>
                    /\ checked.pub_counters = (msg.sender_id :> msg.pub_counter)
                    /\ checked.unexpected_msgs = topic_sub.unexpected_msgs)

\* the first message the subscriber got from a sender carried a counter
\* other than 0, and nothing is recorded as unexpected
C30_Witness ==
    /\ Len(callback_msgs) = 1
    /\ callback_msgs[1].pub_counter > 0
    /\ topic_sub.pub_counters = (callback_msgs[1].sender_id :> callback_msgs[1].pub_counter)
    /\ topic_sub.unexpected_msgs = <<>>

\* C29: while a constructed server is the only one started and has taken no
\* request, get_status() returns its NodeID with ready true; close() deletes
\* the status key, so that get_status() returns None; and a constructor that
\* reads no status passes the duplicate check under any NodeID and writes
\* its own status.
C29_StatusKeyLifecycle ==
    /\ [](\A s \in Servers :
            ( /\ srv_pc[s] = "listen"
              /\ ~Closed(s)
              /\ Taken(s) = 0
              /\ \A other \in Servers \ {s} : srv_pc[other] = "new" ) =>
                /\ get_status(kv[status_key]) = RPCStatus(node_id[s], NoneMsg)
                /\ ready(get_status(kv[status_key])))
    /\ [][\A s \in Servers :
            (~Closed(s) /\ request_sub'[s].state = "closed") =>
                get_status(kv'[status_key]) = NoneMsg]_vars
    /\ [][\A s \in Servers :
            (srv_pc[s] = "init_got" /\ raw_status[s] = NoneRaw /\ srv_pc'[s] # "init_got") =>
                /\ srv_pc'[s] = "init_set"
                /\ get_status(kv'[status_key]) = RPCStatus(node_id[s], NoneMsg)]_vars

\* the first server was closed, and a server with another NodeID has been
\* constructed and stands in the status
C29_Witness ==
    /\ Closed("s1")
    /\ srv_pc["s2"] = "listen"
    /\ node_id["s2"] # node_id["s1"]
    /\ get_status(kv[status_key]) = RPCStatus(node_id["s2"], NoneMsg)

\* run() has left the gather of the node's tasks
PastGather == node.run_pc \in {"coro_done", "returned", "raised"}

\* C22: however the gather of the node's tasks ends, _run_coro calls stop()
\* as it leaves the gather, once, so that stop() has been called when run()
\* returns or raises.
C22_StopInCleanup ==
    /\ [](PastGather => node.stops >= 1)
    /\ [][(node.run_pc = "gather" /\ node'.run_pc # "gather") =>
            /\ node'.run_pc = "coro_done"
            /\ node'.stops = node.stops + 1]_vars
    /\ [][PastGather => node'.stops = node.stops]_vars

\* run() has raised the exception of a task, after one stop()
C22_Witness ==
    /\ node.run_pc = "raised"
    /\ node.exc = "Exception"
    /\ node.pending = "Exception"
    /\ node.stops = 1

\* C23: run() returns normally when the gather of the tasks ended normally,
\* by CancelledError, KeyboardInterrupt or BlockingIOError, and raises any
\* other exception of a task to its caller, after stop().
C23_SwallowedAndReraised ==
    /\ [](node.run_pc = "returned" =>
            node.exc \in {"None", "CancelledError", "KeyboardInterrupt", "BlockingIOError"})
    /\ [](node.run_pc = "raised" => node.exc = "Exception" /\ node.stops >= 1)
    /\ (node.run_pc = "coro_done" /\ node.exc = "Exception") ~> (node.run_pc = "raised")
    /\ (node.run_pc = "coro_done" /\ node.exc # "Exception") ~> (node.run_pc = "returned")

\* C24: stop() cancels the procedure the server is executing, and after
\* stop() the server takes no further request and its request loop ends.
C24_StopEndsServer ==
    /\ [][(node.stops' > node.stops /\ srv_pc["s1"] = "await_task") =>
            cur_rpc_call'["s1"].task = "cancelled"]_vars
    /\ [][(node.stops > 0 /\ Constructed("s1")) =>
            request_sub'["s1"].cursor = request_sub["s1"].cursor]_vars
    /\ (node.stops > 0 /\ HasServer("s1")) ~> (srv_pc["s1"] = "cancelled")

\* C25: run() reaches its cleanup without an exception or a cancellation
\* only when no user task, asynchronous or blocking, is still running.
C25_CleanupAfterUserTasks ==
    (PastGather /\ node.exc = "None") =>
        /\ node.tasks.user # "running"
        /\ node.tasks.blocking # "running"

\* what _check_latency finds for the message the cancel subscriber of s takes
\* next: the records _update_latency_records keeps and whether they span
\* the window, and the two comparisons
LatencyFinding(s) ==
    LET sub == cancel_sub[s]
        msg == ParseRaw(sub.topic_spec.msg_cls, NextDelivery(sub))
        upd == update_latency_records(sub, msg, now)
        recs == upd.sub.latency_records
    IN  [recs |-> recs,
         ready |-> upd.window_ready,
         single |-> recs[Len(recs)].msg_latency > sub.topic_spec.max_single_latency,
         avg |-> SumLatency(recs) > sub.topic_spec.max_avg_latency * Len(recs)]

\* C31: when the records span the window and their mean latency exceeds
\* max_avg_latency, the issue count grows and the records become empty; the
\* message that follows a reset counts no issue; and a message that is only
\* late itself counts one issue and leaves the records in place.
C31_AverageWarningResetsWindow ==
    [][(Constructed("s1") /\ cancel_sub'["s1"].cursor = cancel_sub["s1"].cursor + 1) =>
          LET f == LatencyFinding("s1")
              before == cancel_sub["s1"]
              after == cancel_sub'["s1"]
          IN  /\ (f.ready /\ f.avg) =>
                    /\ after.latency_issue_count > before.latency_issue_count
                    /\ after.latency_records = <<>>
              /\ (f.ready /\ f.single /\ ~f.avg) =>
                    /\ after.latency_issue_count = before.latency_issue_count + 1
                    /\ after.latency_records = f.recs
                    /\ after.latency_records # <<>>
              /\ (before.latency_records = <<>>) =>
                    after.latency_issue_count = before.latency_issue_count
              /\ (after.latency_issue_count # before.latency_issue_count) =>
                    /\ before.latency_records # <<>>
                    /\ now - before.latency_records[1].msg_rcv_ts >= LATENCY_WINDOW_S]_vars

\* four cancels were taken: the second was late alone (one issue, records
\* kept), the third made the mean too high (two issues, records reset), and
\* the fourth, late as well, counted nothing
C31_Witness ==
    /\ Constructed("s1")
    /\ cancel_sub["s1"].cursor - cancel_sub["s1"].start = 4
    /\ cancel_sub["s1"].latency_issue_count = 3
    /\ Len(cancel_sub["s1"].latency_records) = 1
    /\ cancel_sub["s1"].latency_records[1].msg_latency
          > cancel_sub["s1"].topic_spec.max_single_latency

\* the messages the subscriber got from p follow one another: each carries
\* the pub_counter of the one before it plus 1
InSequence(p) ==
    \A k \in 2..Len(Received(p)) :
        Received(p)[k].pub_counter = Received(p)[k - 1].pub_counter + 1

\* C32: a message changes the stored counter of its sender only, and no
\* message of a sender whose own messages arrive in sequence is recorded as
\* unexpected, however the messages of the other sender interleave with
\* them and whatever gap the other sender's messages have.
C32_OrderingIsPerSender ==
    /\ [](listen_pc # "absent" =>
            \A p \in Nodes :
                InSequence(p) =>
                    \A k \in 1..Len(topic_sub.unexpected_msgs) :
                        topic_sub.unexpected_msgs[k].sender_id # p)
    /\ [][(listen_pc # "absent" /\ topic_sub'.cursor # topic_sub.cursor) =>
            \A p \in Nodes :
                (callback_msgs' = callback_msgs
                    \/ callback_msgs'[Len(callback_msgs')].sender_id # p) =>
                    /\ (p \in DOMAIN topic_sub'.pub_counters)
                          = (p \in DOMAIN topic_sub.pub_counters)
                    /\ p \in DOMAIN topic_sub.pub_counters =>
                          topic_sub'.pub_counters[p] = topic_sub.pub_counters[p]]_vars

\* a message of debug0 was lost and the next one recorded as unexpected, and
\* debug1's two messages, the second taken after that, were not
C32_Witness ==
    /\ listen_pc # "absent"
    /\ Len(topic_sub.unexpected_msgs) = 1
    /\ topic_sub.unexpected_msgs[1].sender_id = "debug0"
    /\ ~InSequence("debug0")
    /\ Len(Received("debug1")) = 2
    /\ InSequence("debug1")
    /\ callback_msgs[Len(callback_msgs)].sender_id = "debug1"
    /\ topic_sub.pub_counters["debug1"] = 1

\* C33: while every response to a client's calls is a completed one, the
\* responses on the client's response channel carry pub_counter values that
\* increase by 1, and the client's response subscriber records none of them
\* as unexpected.
C33_SequentialResponsesInOrder ==
    \A c \in Clients :
        (\A j \in 1..Len(ResponseLog(c)) : completed(ResponseLog(c)[j])) =>
            /\ response_sub[c].unexpected_msgs = <<>>
            /\ \A j \in 2..Len(ResponseLog(c)) :
                  ResponseLog(c)[j].pub_counter = ResponseLog(c)[j - 1].pub_counter + 1

\* the cancel was published while the request that resp answers was the
\* server's current call: after execute() read its start time and before the
\* response was published
PublishedDuring(cancel_msg, resp) ==
    /\ resp.pub_dt - resp.duration < cancel_msg.pub_dt
    /\ cancel_msg.pub_dt < resp.pub_dt

\* C34: when one cancel has been published, and it was published while the
\* request of some response was the current call, no response to another
\* request has cancelled = true.
C34_CancelHitsCurrentOnly ==
    Len(CancelLog) = 1 =>
        \A c, d \in Clients :
            \A i \in 1..Len(ResponseLog(c)) :
                \A j \in 1..Len(ResponseLog(d)) :
                    ( /\ PublishedDuring(CancelLog[1], ResponseLog(c)[i])
                      /\ ResponseLog(d)[j].cancelled = "True" ) =>
                        (c = d /\ i = j)

\* the status that _update_status of server s has read names another server
ReadAnotherOwner(s) ==
    /\ raw_status[s] # NoneRaw
    /\ ParseRPCStatus(raw_status[s]).server_id # node_id[s]

\* the request loop of s has ended by DuplicateServerError of the
\* _update_status that precedes execute()
RaisedBeforeExecute(s) ==
    /\ srv_pc[s] = "raised"
    /\ cur_rpc_call[s] # NoneMsg
    /\ cur_rpc_call[s].task = "None"

\* C35: a constructed server whose _handle_request finds another server's
\* NodeID in the status key raises before it starts the procedure, writes
\* nothing and publishes nothing; no response of that server to that request
\* ever exists; and its request loop takes no further request.
C35_OwnershipRecheckedOnRequest ==
    /\ [][\A s \in Servers :
            (srv_pc[s] = "req_got" /\ ReadAnotherOwner(s) /\ srv_pc'[s] # "req_got") =>
                /\ srv_pc'[s] = "raised"
                /\ cur_rpc_call'[s].task = "None"
                /\ log' = log
                /\ kv' = kv]_vars
    /\ [](\A s \in Servers :
            RaisedBeforeExecute(s) =>
                \A c \in Clients :
                    \A j \in 1..Len(ResponseLog(c)) :
                        ~( /\ ResponseLog(c)[j].sender_id = node_id[s]
                           /\ ResponseLog(c)[j].request_msg
                                 = Json(cur_rpc_call[s].request_msg) ))
    /\ [][\A s \in Servers :
            srv_pc[s] = "raised" =>
                /\ srv_pc'[s] = "raised"
                /\ request_sub'[s].cursor = request_sub[s].cursor]_vars

\* both servers passed their constructors, s1 took the request while the
\* status key named s2 and raised, and s2 answered the request
C35_Witness ==
    /\ RaisedBeforeExecute("s1")
    /\ kv[status_key] # NoneRaw
    /\ kv[status_key].server_id = node_id["s2"]
    /\ node_id["s2"] # node_id["s1"]
    /\ \E j \in 1..Len(ResponseLog("c1")) :
          /\ ResponseLog("c1")[j].sender_id = node_id["s2"]
          /\ ResponseLog("c1")[j].request_msg = Json(cur_rpc_call["s1"].request_msg)

\* C36: a call of stop() closes the node's subscriber and leaves no task of
\* the node running, and changes neither the key/value store nor the
\* server's two subscribers; so once the node has stopped the status key
\* still names its server, and a server constructed afterwards with another
\* NodeID raises DuplicateServerError.
C36_StopLeavesStatusKey ==
    /\ [][node.stops' > node.stops =>
            /\ kv' = kv
            /\ request_sub' = request_sub
            /\ cancel_sub' = cancel_sub
            /\ topic_sub.state = "open" => topic_sub'.state = "closed"
            /\ node'.tasks.serve # "running"
            /\ node'.tasks.user # "running"]_vars
    /\ [](node.stops > 0 =>
            /\ kv[status_key] # NoneRaw
            /\ kv[status_key].server_id = node_id["s1"]
            /\ request_sub["s1"].state = "open")
    /\ [](( /\ srv_pc["s2"] \in {"init_raised", "init_set", "listen"}
            /\ node_id["s2"] # node_id["s1"] ) => srv_pc["s2"] = "init_raised")

\* run() has returned after its stop(), the node's subscriber is closed, the
\* server's request subscriber is open, and the constructor of a server with
\* another NodeID has raised
C36_Witness ==
    /\ node.run_pc = "returned"
    /\ node.stops > 0
    /\ topic_sub.state = "closed"
    /\ request_sub["s1"].state = "open"
    /\ kv[status_key] # NoneRaw
    /\ srv_pc["s2"] = "init_raised"
    /\ node_id["s2"] # node_id["s1"]

\* C37: two clients that differ in the base channel of their RPC or in their
\* name derive different response channels.
C37_ResponseChannelInjective ==
    ( /\ derived # NoneMsg
      /\ derived.out[1] # NoneStr
      /\ derived.out[2] # NoneStr
      /\ \/ derived.specs[1].base_channel # derived.specs[2].base_channel
         \/ derived.requesters[1] # derived.requesters[2] ) =>
        derived.out[1] # derived.out[2]

====
